---- MODULE Spec2Model ----
(***************************************************************************)
(* lawalletio/card: tap authentication (NTAG 424 SUN verifier) and the     *)
(* withdrawal authorization pipeline (scan, GET /card/pay, POST /card/pay).*)
(*                                                                         *)
(* The store is the Prisma/PostgreSQL database; every awaited database     *)
(* call is one atomic step, and a handler may be suspended between any two *)
(* of its awaits.                                                          *)
(***************************************************************************)
EXTENDS Integers, Sequences, FiniteSets, TLC

VARIABLES
  ntag424,          \* table ntag424: cid -> the other columns of the row
  vreq,             \* retrieveNtag424FromPC calls in flight, one per verifier
  accepted,         \* history: cid -> counters of the taps already answered ok
  now,              \* wall clock, in seconds
  payments,         \* table payments, in insertion order
  paymentRequests,  \* table payment_requests; the uuid is the row's index
  outbox,           \* events handed to outbox.publish, in order
  inserts,          \* createMany calls issued and not yet executed by the store
  sreq,             \* the scan handler in flight
  preq,             \* pay handlers in flight, one per worker
  answered,         \* history: uuids of the payment requests answered OK
  cards,            \* table card
  holders,          \* table holder: the pubKeys
  delegations,      \* table delegation
  limit,            \* table limit
  ireq,             \* the POST /ntag424 handler in flight
  areq,             \* the PATCH /ntag424 handler in flight
  creq,             \* POST /card handlers in flight, one per worker
  resetTokens,      \* table reset_token, keyed by holderPubKey
  trustedMerchants, \* table trusted_merchants
  hreq              \* the other handlers in flight, by name

vars == <<ntag424, vreq, accepted, now, payments, paymentRequests, outbox,
          inserts, sreq, preq, answered, cards, holders, delegations, limit,
          ireq, areq, creq, resetTokens, trustedMerchants, hreq>>

payVars == <<now, payments, paymentRequests, outbox, inserts, sreq, preq, answered>>

restVars == <<resetTokens, trustedMerchants, hreq>>

provVars == <<cards, holders, delegations, limit, ireq, areq, creq, restVars>>

(***************************************************************************)
(* Bounds of the model                                                     *)
(***************************************************************************)
MaxCtr == 3

Verifiers == {"v1", "v2"}

Counters == 1..MaxCtr

(***************************************************************************)
(* lib/card.ts: the SUN verifier                                           *)
(***************************************************************************)
serverK1 == "k1"

sv2prefix == "3cc300010080"

Cids == {"cidA", "cidB"}

\* the NTAGs of the store: both were initialised with ctr 0 and their own keys;
\* cidA was associated with the one-time code otcA, cidB with none so far
InitNtag424 ==
  [cid \in Cids |->
     IF cid = "cidA"
       THEN [ctr |-> 0, k0 |-> "k0A", k1 |-> serverK1, k2 |-> "k2A", k3 |-> "k3A", k4 |-> "k4A",
             otc |-> "otcA", design |-> "To the moon"]
       ELSE [ctr |-> 0, k0 |-> "k0B", k1 |-> serverK1, k2 |-> "k2B", k3 |-> "k3B", k4 |-> "k4B",
             otc |-> "null", design |-> "To the moon"]]

Byte(n, i) == (n \div (256 ^ i)) % 256

\* the bytes in the order of the hex form: most significant first
CtrBytesMostSignificantFirst(ctr) == <<Byte(ctr, 2), Byte(ctr, 1), Byte(ctr, 0)>>

\* generatePC writes the counter as cid || ctrBytes[2], ctrBytes[1], ctrBytes[0]
\* of its big-endian hex form: least significant byte first on the wire
CtrBytes(ctr) == <<Byte(ctr, 0), Byte(ctr, 1), Byte(ctr, 2)>>

\* symbolic AES-128-CBC under a zero IV: a ciphertext names its key and plaintext
Encrypt(key, plain) == [hex |-> TRUE, key |-> key, plain |-> plain]

Garbage == [head |-> 0, cid |-> "none", ctr |-> <<0, 0, 0>>]

decrypt(key, ciphertext) == IF ciphertext.key = key THEN ciphertext.plain ELSE Garbage

\* symbolic CMAC-over-CMAC, odd bytes: determined by key, prefix, cid and counter bytes
sdmmac(k2, cidBytes, ctrBytes) == <<k2, sv2prefix, cidBytes, ctrBytes>>

\* the p and c a card holding key k2 emits for a tap
generatePC(k2, cid, ctr) ==
  [p |-> Encrypt(serverK1, [head |-> 199, cid |-> cid, ctr |-> CtrBytes(ctr)]),
   c |-> [hex |-> TRUE, mac |-> sdmmac(k2, cid, CtrBytes(ctr))]]

\* a p or c that is not an uppercase hex string of the required length
MalformedP == [Encrypt("none", Garbage) EXCEPT !.hex = FALSE]

MalformedC == [hex |-> FALSE, mac |-> sdmmac("none", "none", <<0, 0, 0>>)]

\* the taps a client may present: genuine taps of the two cards, a tap whose c was
\* computed under another key, a tap of a card the store does not know, a p
\* encrypted under another key, and values that are not uppercase hex
GenuineTaps ==
  {generatePC(InitNtag424["cidA"].k2, "cidA", ctr) : ctr \in Counters}
    \cup {generatePC(InitNtag424["cidB"].k2, "cidB", 1)}

ForgedTaps ==
  {generatePC("k2X", "cidA", MaxCtr), generatePC("k2X", "cidX", 1),
   [p |-> Encrypt("kX", [head |-> 199, cid |-> "cidA", ctr |-> CtrBytes(1)]),
    c |-> generatePC("k2A", "cidA", 1).c],
   [p |-> MalformedP, c |-> generatePC("k2A", "cidA", 1).c],
   [p |-> generatePC("k2A", "cidA", 1).p, c |-> MalformedC]}

Taps == GenuineTaps \cup ForgedTaps

ctrNewOf(ctrBytes) == ctrBytes[3] * 65536 + ctrBytes[2] * 256 + ctrBytes[1]

\* counters on both sides of every byte boundary of the 24-bit range
WideCounters == {0, 1, 255, 256, 65535, 65536, 66051, 16777215}

\* the taps of the card of NTAG cidA at those counters
WideTaps == {generatePC(InitNtag424["cidA"].k2, "cidA", ctr) : ctr \in WideCounters}

IdleV == [pc |-> "idle", p |-> MalformedP, c |-> MalformedC, cid |-> "none",
          ctrBytes |-> <<0, 0, 0>>, ctrNew |-> 0, ctrOld |-> 0, k2 |-> "none", seen |-> {}, result |-> "none"]

VDone(v) == vreq[v].pc \in {"idle", "done"}

\* retrieveNtag424FromPC up to its first await: shape checks, decrypt, 0xC7, parse
VerifyBegin(v, tap) ==
  /\ VDone(v)
  /\ LET pBytes == decrypt(serverK1, tap.p)
         base == [IdleV EXCEPT !.p = tap.p, !.c = tap.c]
     IN vreq' = [vreq EXCEPT ![v] =
          IF ~tap.p.hex
            THEN [base EXCEPT !.pc = "done", !.result = "MALFORMED_P__NOT_A_32_CHAR_UPPERCASE_HEX_VALUE"]
          ELSE IF ~tap.c.hex
            THEN [base EXCEPT !.pc = "done", !.result = "MALFORMED_C__NOT_A_16_CHAR_UPPERCASE_HEX_VALUE"]
          ELSE IF pBytes.head # 199
            THEN [base EXCEPT !.pc = "done", !.result = "MALFORMED_P__DOES_NOT_START_WITH_0XC7"]
          ELSE [base EXCEPT !.pc = "findUnique", !.cid = pBytes.cid, !.ctrBytes = pBytes.ctr,
                            !.ctrNew = ctrNewOf(pBytes.ctr),
                            !.seen = IF pBytes.cid \in Cids THEN accepted[pBytes.cid] ELSE {}]]
  /\ UNCHANGED <<ntag424, accepted>>

\* the counter test of the earlier version of the file (ctrNew < ctrOld)
CounterTooOldNotStrict(ctrNew, ctrOld) == ctrNew < ctrOld

\* the counter test applied to the row that findUnique returned
CounterTooOld(ctrNew, ctrOld) == ctrNew <= ctrOld

\* prisma.ntag424.findUnique resolves; the code runs on to the await of sdmmac
VerifyFindUnique(v) ==
  /\ vreq[v].pc = "findUnique"
  /\ LET r == vreq[v]
     IN vreq' = [vreq EXCEPT ![v] =
          IF r.cid \notin DOMAIN ntag424
            THEN [r EXCEPT !.pc = "done", !.result = "NO_SUITABLE_CARD_FOUND"]
          ELSE IF CounterTooOld(r.ctrNew, ntag424[r.cid].ctr)
            THEN [r EXCEPT !.pc = "done", !.ctrOld = ntag424[r.cid].ctr,
                           !.result = "MALFORMED_P__COUNTER_VALUE_TOO_OLD"]
          ELSE [r EXCEPT !.pc = "sdmmac", !.ctrOld = ntag424[r.cid].ctr,
                         !.k2 = ntag424[r.cid].k2]]
  /\ UNCHANGED <<ntag424, accepted>>

\* sdmmac resolves; on a match the code issues prisma.ntag424.update and awaits it
VerifySdmmac(v) ==
  /\ vreq[v].pc = "sdmmac"
  /\ LET r == vreq[v]
     IN vreq' = [vreq EXCEPT ![v] =
          IF r.c.mac # sdmmac(r.k2, r.cid, r.ctrBytes)
            THEN [r EXCEPT !.pc = "done", !.result = "MALFORMED_C__SDMMAC_MISMATCH"]
          ELSE [r EXCEPT !.pc = "update"]]
  /\ UNCHANGED <<ntag424, accepted>>

\* UPDATE ntag424 SET ctr = ctrNew WHERE cid = ... AND k1 = ...; then return ok
VerifyUpdate(v) ==
  /\ vreq[v].pc = "update"
  /\ ntag424' = [ntag424 EXCEPT ![vreq[v].cid].ctr = vreq[v].ctrNew]
  /\ vreq' = [vreq EXCEPT ![v].pc = "done", ![v].result = "ok"]
  /\ accepted' = [accepted EXCEPT ![vreq[v].cid] = @ \cup {vreq[v].ctrNew}]

(***************************************************************************)
(* The store behind the withdrawal pipeline                                *)
(***************************************************************************)
MaxNow == 3

MaxScans == 2

MaxExtendedScans == 1

MaxPayments == 2

\* PAYMENT_REQUEST_EXPIRY_IN_SECONDS, in the model's time unit
paymentRequestExpiryInSeconds == 2

defaultToken == "BTC"

Tokens == {"BTC", "USD"}

PayWorkers == {"p1", "p2"}

\* the workers take requests in a fixed order
WorkerBefore(g, h) == g = "p1" /\ h = "p2"

\* the card of NTAG cidA and its holder; NTAG cidB has no card
Card1 == [uuid |-> "card1", ntag424Cid |-> "cidA", holderPubKey |-> "holder1", enabled |-> TRUE]

Cards == {Card1}

\* table limits: two windows on BTC and one on USD
Limits ==
  {[uuid |-> "l1", cardUuid |-> "card1", token |-> "BTC", amount |-> 2, delta |-> 1],
   [uuid |-> "l2", cardUuid |-> "card1", token |-> "BTC", amount |-> 3, delta |-> 2],
   [uuid |-> "l3", cardUuid |-> "card1", token |-> "USD", amount |-> 1, delta |-> 1]}

\* table delegations: the holder's delegation, valid from 0 to 2
Delegations ==
  {[delegatorPubKey |-> "holder1", conditions |-> "kind=1112&created_at<2&created_at>0",
    delegationToken |-> "sig1", since |-> 0, until |-> 2],
   [delegatorPubKey |-> "holder2", conditions |-> "kind=1112&created_at<3&created_at>0",
    delegationToken |-> "sig2", since |-> 0, until |-> 3]}

EmptyMap == [t \in {} |-> 0]

RECURSIVE SumAmounts(_)
\* SUM(p.amount) over a set of rows of table payments, given by their indices
SumAmounts(rows) ==
  IF rows = {} THEN 0
  ELSE LET i == CHOOSE j \in rows : TRUE
       IN payments[i].amount + SumAmounts(rows \ {i})

MinOf(S) == CHOOSE x \in S : \A y \in S : x <= y

\* the rows of payments that the LEFT JOIN attaches to limit l
JoinedPayments(l) ==
  {i \in 1..Len(payments) :
     /\ payments[i].token = l.token
     /\ payments[i].cardUuid = l.cardUuid
     /\ now - l.delta <= payments[i].createdAt}

\* the inner SELECT: one row per limit of the card whose token is asked for
LimitRows(card, tokens) ==
  {[uuid |-> l.uuid, token |-> l.token, remaining |-> l.amount - SumAmounts(JoinedPayments(l))] :
     l \in {x \in limit : x.token \in tokens /\ x.cardUuid = card.uuid}}

\* the aggregate with MAX in the place of MIN
GroupRemainingMax(rows) == CHOOSE x \in {r.remaining : r \in rows} : \A r \in rows : r.remaining <= x

\* the aggregate of the outer SELECT, before HAVING
GroupRemaining(rows) == MinOf({r.remaining : r \in rows})

\* getLimits: GROUP BY token HAVING 0 < MIN(remaining), as a dictionary
getLimits(card, tokens) ==
  LET asked == IF tokens = {} THEN {defaultToken} ELSE tokens
      rows == LimitRows(card, asked)
      groups == {t \in {r.token : r \in rows} :
                   0 < GroupRemaining({r \in rows : r.token = t})}
  IN [t \in groups |-> GroupRemaining({r \in rows : r.token = t})]

\* the lookup with gte in the place of gt
ExtantPaymentRequestInclusive(uuid) ==
  /\ uuid \in 1..Len(paymentRequests)
  /\ paymentRequests[uuid].createdAt >= now - paymentRequestExpiryInSeconds
  /\ ~\E i \in 1..Len(payments) : payments[i].paymentRequestUuid = uuid

\* getExtantPaymentRequestByUuid: the row, if younger than the expiry and unpaid
ExtantPaymentRequest(uuid) ==
  /\ uuid \in 1..Len(paymentRequests)
  /\ paymentRequests[uuid].createdAt > now - paymentRequestExpiryInSeconds
  /\ ~\E i \in 1..Len(payments) : payments[i].paymentRequestUuid = uuid

\* the findFirst without its condition on until
ValidDelegationsNoUntil(holderPubKey) ==
  {d \in Delegations : d.delegatorPubKey = holderPubKey /\ d.since <= now}

\* getCardDelegation's findFirst: the delegations of the holder valid now
ValidDelegations(holderPubKey) ==
  {d \in Delegations : d.delegatorPubKey = holderPubKey /\ d.since <= now /\ now <= d.until}

\* fetchBalances: what the ledger reports for the asked tokens
LedgerBalances ==
  {[t \in Tokens |-> 2], [t \in {"BTC"} |-> 1]}

fetchBalances(ledger, tokens) == [t \in (DOMAIN ledger) \cap tokens |-> ledger[t]]

(***************************************************************************)
(* rest/card/scan/get.ts: handleScan and handleExtendedScan                *)
(***************************************************************************)
IdleScan == [pc |-> "idle", kind |-> "none", tokens |-> {}, cid |-> "none", cardUuid |-> "none",
             response |-> [tag |-> "none", tokens |-> EmptyMap]]

\* the taps presented to the scan endpoint: the card's next tap, a replay of
\* its last one, and a forged one
ScanTaps ==
  {generatePC("k2A", "cidA", ctr) :
     ctr \in {ntag424["cidA"].ctr, ntag424["cidA"].ctr + 1} \cap Counters}
    \cup {generatePC("k2X", "cidA", MaxCtr)}

\* the tokens parameter of X-LaWallet-Param, split at ':'
ScanTokenLists == {{"BTC", "USD"}}

\* retrieveNtag424FromPC run from its entry to its return with no other
\* verification of the NTAG in between: whether it answers ok
VerifiesOk(tap) ==
  LET pBytes == decrypt(serverK1, tap.p)
  IN /\ tap.p.hex
     /\ tap.c.hex
     /\ pBytes.head = 199
     /\ pBytes.cid \in DOMAIN ntag424
     /\ ~CounterTooOld(ctrNewOf(pBytes.ctr), ntag424[pBytes.cid].ctr)
     /\ tap.c.mac = sdmmac(ntag424[pBytes.cid].k2, pBytes.cid, pBytes.ctr)

\* the handler is entered and awaits retrieveNtag424FromPC, which stores the
\* tap's counter when it answers ok; on an error the handler answers 400
ScanBegin(kind, tokens, tap) ==
  /\ sreq.pc = "idle"
  /\ Len(paymentRequests) < (IF kind = "standard" THEN MaxScans ELSE MaxExtendedScans)
  /\ LET pBytes == decrypt(serverK1, tap.p)
     IN IF VerifiesOk(tap)
          THEN /\ ntag424' = [ntag424 EXCEPT ![pBytes.cid].ctr = ctrNewOf(pBytes.ctr)]
               /\ sreq' = [IdleScan EXCEPT !.pc = "findCard", !.kind = kind,
                                           !.tokens = tokens, !.cid = pBytes.cid]
          ELSE /\ sreq' = IdleScan
               /\ UNCHANGED ntag424
  /\ UNCHANGED <<vreq, accepted, now, payments, paymentRequests, outbox, inserts, preq, answered>>
  /\ UNCHANGED provVars

checkStatus(card) == card.enabled /\ card.holderPubKey # "null"

\* prisma.card.findUnique by ntag424Cid, and checkStatus; a missing card and a
\* card that fails checkStatus are answered 400
ScanCard ==
  /\ sreq.pc = "findCard"
  /\ LET found == {c \in cards : c.ntag424Cid = sreq.cid}
     IN sreq' =
          IF found = {} THEN IdleScan
          ELSE IF ~checkStatus(CHOOSE c \in found : TRUE) THEN IdleScan
          ELSE [sreq EXCEPT !.pc = "getLimits", !.cardUuid = (CHOOSE c \in found : TRUE).uuid]
  /\ UNCHANGED <<ntag424, vreq, accepted, now, payments, paymentRequests, outbox, inserts, preq, answered>>
  /\ UNCHANGED provVars

\* `0 === limits.length`: limits is a dictionary and has no length, so the
\* comparison of 0 with undefined is false whatever the dictionary holds
LimitsExceeded(limits) == FALSE

\* getLimits resolves and the response without its k1 is built; were the limits
\* found exceeded the handler would answer 400 'Limits exceeded'
ScanGetLimits ==
  /\ sreq.pc = "getLimits"
  /\ LET card == CHOOSE c \in cards : c.uuid = sreq.cardUuid
         limits == getLimits(card, IF sreq.kind = "standard" THEN {defaultToken} ELSE sreq.tokens)
     IN sreq' =
          IF LimitsExceeded(limits) THEN IdleScan
          ELSE IF sreq.kind = "standard"
            THEN [sreq EXCEPT !.pc = "create",
                   !.response = [tag |-> "withdrawRequest",
                                 tokens |-> [t \in DOMAIN limits \cap {defaultToken} |-> limits[t]]]]
          ELSE [sreq EXCEPT !.pc = "create",
                   !.response = [tag |-> "laWallet:withdrawRequest",
                                 tokens |-> [t \in DOMAIN limits |-> limits[t]]]]
  /\ UNCHANGED <<ntag424, vreq, accepted, now, payments, paymentRequests, outbox, inserts, preq, answered>>
  /\ UNCHANGED provVars

\* prisma.paymentRequest.create, and the handler answers 200 with the new k1
ScanCreate ==
  /\ sreq.pc = "create"
  /\ paymentRequests' = Append(paymentRequests,
       [cardUuid |-> sreq.cardUuid, response |-> sreq.response, createdAt |-> now])
  /\ sreq' = IdleScan
  /\ UNCHANGED <<ntag424, vreq, accepted, now, payments, outbox, inserts, preq, answered>>
  /\ UNCHANGED provVars

(***************************************************************************)
(* rest/card/pay/get.ts and rest/card/pay/post.ts                          *)
(***************************************************************************)
IdlePay == [pc |-> "idle", kind |-> "none", k1 |-> 0, tokens |-> EmptyMap,
            limits |-> EmptyMap, balance |-> EmptyMap, holderPubKey |-> "null",
            replay |-> FALSE, retry |-> FALSE, status |-> 0]

\* the invoice amounts of GET /card/pay, in msats
Msats == {1, 2}

\* the tokens dictionaries of POST /card/pay
PostTokens ==
  {EmptyMap, [t \in Tokens |-> 1],
   [t \in Tokens |-> IF t = "BTC" THEN 2 ELSE 1]}

\* tokens dictionaries whose value is a number of either sign
SignedTokens == {[t \in {defaultToken} |-> a] : a \in {-1, 0, 1}}

\* the handler answers 400 with the reason given; its locals are gone
PayFail(r, error) ==
  [IdlePay EXCEPT !.pc = "done", !.kind = r.kind, !.status = 400]

\* the request is parsed: the amount of pr (GET) or the content (POST), and k1
PayBegin(h, kind, k1, tokens) ==
  /\ preq[h].pc = "idle"
  /\ \A g \in PayWorkers : WorkerBefore(g, h) => preq[g].pc # "idle"
  /\ preq' = [preq EXCEPT ![h] = [IdlePay EXCEPT !.pc = "findPR", !.kind = kind, !.k1 = k1,
                                                 !.tokens = tokens, !.replay = k1 \in answered,
                                                 !.retry = \E g \in PayWorkers :
                                                             /\ preq[g].status = 500
                                                             /\ preq[g].k1 = k1]]
  /\ UNCHANGED <<ntag424, vreq, accepted, now, payments, paymentRequests, outbox, inserts, sreq, answered>>
  /\ UNCHANGED provVars

\* `maxWithdrawable < msats` of GET: with no maxWithdrawable in the stored
\* response the left side is undefined and the comparison is false
GetAmountInvalid(response, msats) ==
  defaultToken \in DOMAIN response.tokens /\ response.tokens[defaultToken] < msats

\* the tag of GET /card/pay, required whatever the endpoint
ExpectedTagOfGet(kind) == "withdrawRequest"

\* the tag of the stored response that each pay endpoint requires
ExpectedTag(kind) == IF kind = "GET" THEN "withdrawRequest" ELSE "laWallet:withdrawRequest"

\* getExtantPaymentRequestByUuid resolves; holder and tag are checked, and for
\* GET the amount against the stored maxWithdrawable
PayFindPR(h) ==
  /\ preq[h].pc = "findPR"
  /\ LET r == preq[h]
         pr == paymentRequests[r.k1]
         card == CHOOSE c \in cards : c.uuid = pr.cardUuid
     IN preq' = [preq EXCEPT ![h] =
          IF ~ExtantPaymentRequest(r.k1)
            THEN PayFail(r, "COULD_NOT_FIND_PAYMENT_REQUEST_FOR_UUID")
          ELSE IF card.holderPubKey = "null"
            THEN PayFail(r, "NO_CARD_HOLDER_FOR_UUID")
          ELSE IF pr.response.tag # ExpectedTag(r.kind)
            THEN PayFail(r, "INVALID_TAG_FOR_PAYMENT_REQUEST")
          ELSE IF r.kind = "GET" /\ GetAmountInvalid(pr.response, r.tokens[defaultToken])
            THEN PayFail(r, "INVALID_AMOUNT_FOR_PAYMENT_REQUEST")
          ELSE [r EXCEPT !.pc = "getLimits", !.holderPubKey = card.holderPubKey]]
  /\ UNCHANGED <<ntag424, vreq, accepted, now, payments, paymentRequests, outbox, inserts, sreq, answered>>
  /\ UNCHANGED provVars

\* getLimits resolves for the card of the payment request
PayGetLimits(h) ==
  /\ preq[h].pc = "getLimits"
  /\ LET r == preq[h]
         card == CHOOSE c \in cards : c.uuid = paymentRequests[r.k1].cardUuid
     IN preq' = [preq EXCEPT ![h] =
          [r EXCEPT !.pc = "fetchBalances", !.limits = getLimits(card, DOMAIN r.tokens)]]
  /\ UNCHANGED <<ntag424, vreq, accepted, now, payments, paymentRequests, outbox, inserts, sreq, answered>>
  /\ UNCHANGED provVars

\* GET: (limits[defaultToken] ?? 0) < msats, then (balance[defaultToken] ?? 0) < msats
GetBoundsError(limits, balance, msats) ==
  IF (IF defaultToken \in DOMAIN limits THEN limits[defaultToken] ELSE 0) < msats
    THEN "EXCEEDED_LIMIT"
  ELSE IF (IF defaultToken \in DOMAIN balance THEN balance[defaultToken] ELSE 0) < msats
    THEN "EXCEEDED_BALANCE"
  ELSE "none"

\* the bounds check of the earlier version of the file, without the balance
PostTokenFailsSkipBalance(response, limits, balance, tokens, token) ==
  \/ token \notin DOMAIN response.tokens
  \/ token \notin DOMAIN limits
  \/ response.tokens[token] < tokens[token]
  \/ limits[token] < tokens[token]

\* POST: the condition of the loop over the requested tokens
PostTokenFails(response, limits, balance, tokens, token) ==
  \/ token \notin DOMAIN response.tokens
  \/ token \notin DOMAIN limits
  \/ token \notin DOMAIN balance
  \/ response.tokens[token] < tokens[token]
  \/ limits[token] < tokens[token]
  \/ balance[token] < tokens[token]

\* POST: the loop returns null at the first token that fails
PostBoundsError(response, limits, balance, tokens) ==
  IF \E token \in DOMAIN tokens : PostTokenFails(response, limits, balance, tokens, token)
    THEN "BOUNDS_CHECK_FAILED"
  ELSE "none"

\* fetchBalances resolves with the ledger's answer; the bounds are checked
PayFetchBalances(h, ledger) ==
  /\ preq[h].pc = "fetchBalances"
  /\ LET r == preq[h]
         balance == fetchBalances(ledger, IF r.kind = "GET" THEN {defaultToken} ELSE DOMAIN r.tokens)
         error == IF r.kind = "GET"
                    THEN GetBoundsError(r.limits, balance, r.tokens[defaultToken])
                    ELSE PostBoundsError(paymentRequests[r.k1].response, r.limits, balance, r.tokens)
     IN preq' = [preq EXCEPT ![h] =
          IF error # "none"
            THEN PayFail(r, error)
            ELSE [r EXCEPT !.pc = "findCard", !.balance = balance]]
  /\ UNCHANGED <<ntag424, vreq, accepted, now, payments, paymentRequests, outbox, inserts, sreq, answered>>
  /\ UNCHANGED provVars

\* getCardDelegation: prisma.card.findUnique resolves
PayFindCard(h) ==
  /\ preq[h].pc = "findCard"
  /\ LET r == preq[h]
         found == {c \in cards : c.uuid = paymentRequests[r.k1].cardUuid}
     IN preq' = [preq EXCEPT ![h] =
          IF found = {} \/ (CHOOSE c \in found : TRUE).holderPubKey = "null"
            THEN PayFail(r, "MISSING_DELEGATION")
            ELSE [r EXCEPT !.pc = "findDelegation",
                           !.holderPubKey = (CHOOSE c \in found : TRUE).holderPubKey]]
  /\ UNCHANGED <<ntag424, vreq, accepted, now, payments, paymentRequests, outbox, inserts, sreq, answered>>
  /\ UNCHANGED provVars

\* the event of generateTransactionEvent
TransactionEvent(h, r, delegation) ==
  [kind |-> 1112, content |-> r.tokens, t |-> "internal-transaction-start",
   delegation |-> <<delegation.delegatorPubKey, delegation.conditions, delegation.delegationToken>>,
   from |-> h, k1 |-> r.k1]

\* prisma.delegation.findFirst resolves. With a delegation the code calls
\* addPaymentsForPaymentRequest without awaiting it, so createMany is issued
\* and left in flight, and hands the event to outbox.publish
PayFindDelegation(h) ==
  /\ preq[h].pc = "findDelegation"
  /\ LET r == preq[h]
         valid == ValidDelegations(r.holderPubKey)
     IN IF valid = {}
          THEN /\ preq' = [preq EXCEPT ![h] = PayFail(r, "MISSING_DELEGATION")]
               /\ UNCHANGED <<inserts, outbox>>
          ELSE /\ preq' = [preq EXCEPT ![h].pc = "publish"]
               /\ inserts' = inserts \cup
                    {[by |-> h, paymentRequestUuid |-> r.k1,
                      cardUuid |-> paymentRequests[r.k1].cardUuid, tokens |-> r.tokens]}
               /\ outbox' = Append(outbox, TransactionEvent(h, r, CHOOSE d \in valid : TRUE))
  /\ UNCHANGED <<ntag424, vreq, accepted, now, payments, paymentRequests, sreq, answered>>
  /\ UNCHANGED provVars

RECURSIVE PaymentRows(_, _)
\* the rows createMany inserts: one per entry of the tokens dictionary
PaymentRows(ins, tokens) ==
  IF tokens = {} THEN <<>>
  ELSE LET t == CHOOSE x \in tokens : TRUE
       IN <<[status |-> "Paid", token |-> t, amount |-> ins.tokens[t], cardUuid |-> ins.cardUuid,
             paymentRequestUuid |-> ins.paymentRequestUuid, createdAt |-> now]>>
            \o PaymentRows(ins, tokens \ {t})

\* the store executes a createMany of addPaymentsForPaymentRequest
AddPayments(ins) ==
  /\ ins \in inserts
  /\ payments' = payments \o PaymentRows(ins, DOMAIN ins.tokens)
  /\ inserts' = inserts \ {ins}
  /\ UNCHANGED <<ntag424, vreq, accepted, now, paymentRequests, outbox, sreq, preq, answered>>
  /\ UNCHANGED provVars

\* the tokens dictionaries of the Payments inserted for payment requests that
\* were created before the first scan of the model
EarlierTokens ==
  {[t \in {"BTC"} |-> 1], [t \in {"BTC"} |-> 2], [t \in {"USD"} |-> 1], [t \in Tokens |-> 1]}

\* addPaymentsForPaymentRequest for such a payment request, call and createMany
InsertPayments(tokens) ==
  /\ Len(payments) + Cardinality(DOMAIN tokens) <= MaxPayments
  /\ payments' = payments \o PaymentRows([cardUuid |-> Card1.uuid, paymentRequestUuid |-> 0,
                                           tokens |-> tokens], DOMAIN tokens)
  /\ UNCHANGED <<ntag424, vreq, accepted, now, paymentRequests, outbox, inserts, sreq, preq, answered>>
  /\ UNCHANGED provVars

\* outbox.publish resolves and the handler answers {status: 'OK'}
PayRespondOK(h) ==
  /\ preq[h].pc = "publish"
  /\ preq' = [preq EXCEPT ![h] = [IdlePay EXCEPT !.pc = "done", !.kind = preq[h].kind,
                                      !.k1 = preq[h].k1, !.replay = preq[h].replay,
                                      !.retry = preq[h].retry, !.status = 200]]
  /\ answered' = answered \cup {preq[h].k1}
  /\ UNCHANGED <<ntag424, vreq, accepted, now, payments, paymentRequests, outbox, inserts, sreq>>
  /\ UNCHANGED provVars

\* outbox.publish rejects and the handler answers 500
PayRespondError(h) ==
  /\ preq[h].pc = "publish"
  /\ preq' = [preq EXCEPT ![h] = [IdlePay EXCEPT !.pc = "done", !.kind = preq[h].kind,
                                      !.k1 = preq[h].k1, !.replay = preq[h].replay,
                                      !.retry = preq[h].retry, !.status = 500]]
  /\ UNCHANGED <<ntag424, vreq, accepted, now, payments, paymentRequests, outbox, inserts, sreq, answered>>
  /\ UNCHANGED provVars

\* a second of wall-clock time passes
Tick ==
  /\ now < MaxNow
  /\ now' = now + 1
  /\ UNCHANGED <<ntag424, vreq, accepted, payments, paymentRequests, outbox, inserts, sreq, preq, answered>>
  /\ UNCHANGED provVars

(***************************************************************************)
(* rest/ntag424/post.ts (Initialize): POST /ntag424                        *)
(***************************************************************************)
\* table design, by name
Designs == {"To the moon"}

\* the contents of the requests: a cid of the store or a new one, the last
\* counter of the chip, a design of the store or an unknown one
InitContents ==
  [cid : {"cidA", "cidC", "cidD"}, ctr : {0, 1}, design : {"To the moon", "Unknown"}]

\* what randomHex(16) may return for k0, k2, k3 and k4
RandomKeys ==
  {[k0 |-> "k0R", k2 |-> "k2R", k3 |-> "k3R", k4 |-> "k4R"],
   [k0 |-> "k0S", k2 |-> "k2S", k3 |-> "k3S", k4 |-> "k4S"]}

NoNtag == [cid |-> "none", ctr |-> 0, k0 |-> "none", k1 |-> "none", k2 |-> "none", k3 |-> "none",
           k4 |-> "none", otc |-> "null", design |-> "none"]

IdleInit == [pc |-> "idle", content |-> [cid |-> "none", ctr |-> 0, design |-> "none"],
             status |-> 0, ntag424 |-> NoNtag]

\* createNtag424: fresh keys, the server's k1, the counter and design of the request
createNtag424(content, keys) ==
  [ctr |-> content.ctr, k0 |-> keys.k0, k1 |-> serverK1, k2 |-> keys.k2, k3 |-> keys.k3,
   k4 |-> keys.k4, otc |-> "null", design |-> content.design]

\* a row of the table as the response event carries it
NtagOf(cid) ==
  [cid |-> cid, ctr |-> ntag424[cid].ctr, k0 |-> ntag424[cid].k0, k1 |-> ntag424[cid].k1,
   k2 |-> ntag424[cid].k2, k3 |-> ntag424[cid].k3, k4 |-> ntag424[cid].k4,
   otc |-> ntag424[cid].otc, design |-> ntag424[cid].design]

\* an INSERT that replaces the row of a cid the table already holds
CreateInsertsReplacing(content, keys) ==
  [c \in DOMAIN ntag424 \cup {content.cid} |->
     IF c = content.cid THEN createNtag424(content, keys) ELSE ntag424[c]]

\* the INSERT of prisma.ntag424.create: the table afterwards; a cid the table
\* already holds violates the primary key and the table stays as it is
CreateInserts(content, keys) ==
  IF content.cid \in DOMAIN ntag424 THEN ntag424
  ELSE [c \in DOMAIN ntag424 \cup {content.cid} |->
          IF c = content.cid THEN createNtag424(content, keys) ELSE ntag424[c]]

\* prisma.ntag424.create resolves: P2025 (the design to connect does not exist)
\* is answered 422; P2002 (the cid exists) leads to the findFirst by cid; a
\* created row is answered 201. When both errors apply, which of the two the
\* client raises is not settled by the handler: either may come back.
InitializeCreate(content, keys, designFirst) ==
  /\ ireq.pc \in {"idle", "done"}
  /\ LET base == [IdleInit EXCEPT !.content = content]
         missing == content.design \notin Designs
         exists == content.cid \in DOMAIN ntag424
     IN IF missing /\ (designFirst \/ ~exists)
          THEN /\ ireq' = [base EXCEPT !.pc = "done", !.status = 422]
               /\ UNCHANGED ntag424
        ELSE IF exists
          THEN /\ ireq' = [base EXCEPT !.pc = "findFirst"]
               /\ ntag424' = CreateInserts(content, keys)
        ELSE /\ ntag424' = CreateInserts(content, keys)
             /\ ireq' = [base EXCEPT !.pc = "done", !.status = 201,
                                     !.ntag424 = [cid |-> content.cid] @@ createNtag424(content, keys)]
  /\ UNCHANGED <<vreq, accepted, payVars, cards, holders, delegations, limit, areq, creq>>
  /\ UNCHANGED restVars

\* prisma.ntag424.findFirst({where: {cid}}) resolves; the row is answered 201
InitializeFindFirst ==
  /\ ireq.pc = "findFirst"
  /\ ireq' = [ireq EXCEPT !.pc = "done", !.status = 201, !.ntag424 = NtagOf(ireq.content.cid)]
  /\ UNCHANGED <<ntag424, vreq, accepted, payVars, cards, holders, delegations, limit, areq, creq>>
  /\ UNCHANGED restVars

(***************************************************************************)
(* rest/ntag424/patch.ts (Associate): PATCH /ntag424?p=..&c=..             *)
(***************************************************************************)
\* the one-time codes of the requests
Otcs == {"otcA", "otc1"}

\* the taps presented with the requests: the next taps of both NTAGs and a forged one
AssocTaps ==
  {generatePC(InitNtag424[cid].k2, cid, ctr) : cid \in Cids, ctr \in Counters}
    \cup {generatePC("k2X", "cidA", MaxCtr)}

IdleAssoc == [pc |-> "idle", cid |-> "none", otc |-> "null", oldOtc |-> "null",
              status |-> 0, msg |-> "none"]

\* ntag424.otc ?? content.otc
Coalesce(otc, other) == IF otc = "null" THEN other ELSE otc

\* a lookup of the otc that never finds an NTAG
OtcHasNtagNever(otc) == FALSE

\* prisma.ntag424.findFirst({where: {otc}}) returns a row
OtcHasNtag(otc) == \E cid \in DOMAIN ntag424 : ntag424[cid].otc = otc

\* the handler is entered and awaits retrieveNtag424FromPC, which stores the
\* tap's counter when it answers the NTAG; no NTAG is answered 404, an NTAG
\* bound to another otc 409, otherwise the code awaits the findFirst by otc
AssociateBegin(tap, otc) ==
  /\ areq.pc \in {"idle", "done"}
  /\ LET pBytes == decrypt(serverK1, tap.p)
     IN IF VerifiesOk(tap)
          THEN /\ ntag424' = [ntag424 EXCEPT ![pBytes.cid].ctr = ctrNewOf(pBytes.ctr)]
               /\ areq' =
                    LET r == [IdleAssoc EXCEPT !.cid = pBytes.cid, !.otc = otc,
                                               !.oldOtc = ntag424[pBytes.cid].otc]
                    IN IF Coalesce(ntag424[pBytes.cid].otc, otc) # otc
                         THEN [r EXCEPT !.pc = "done", !.status = 409, !.msg = "NTAG already has OTC"]
                         ELSE [r EXCEPT !.pc = "findFirst"]
          ELSE /\ areq' = [IdleAssoc EXCEPT !.pc = "done", !.otc = otc, !.status = 404]
               /\ UNCHANGED ntag424
  /\ UNCHANGED <<vreq, accepted, payVars, cards, holders, delegations, limit, ireq, creq>>
  /\ UNCHANGED restVars

\* the findFirst by otc resolves: any row it returns is answered 409, otherwise
\* the code issues the update and awaits it
AssociateFindFirst ==
  /\ areq.pc = "findFirst"
  /\ areq' = IF OtcHasNtag(areq.otc)
               THEN [areq EXCEPT !.pc = "done", !.status = 409, !.msg = "OTC already has NTAG"]
               ELSE [areq EXCEPT !.pc = "update"]
  /\ UNCHANGED <<ntag424, vreq, accepted, payVars, cards, holders, delegations, limit, ireq, creq>>
  /\ UNCHANGED restVars

\* prisma.ntag424.update({data: {otc}, where: {cid}}) resolves; 204
AssociateUpdate ==
  /\ areq.pc = "update"
  /\ ntag424' = [ntag424 EXCEPT ![areq.cid].otc = areq.otc]
  /\ areq' = [areq EXCEPT !.pc = "done", !.status = 204]
  /\ UNCHANGED <<vreq, accepted, payVars, cards, holders, delegations, limit, ireq, creq>>
  /\ UNCHANGED restVars

(***************************************************************************)
(* rest/card/post.ts (Activate): POST /card                                *)
(***************************************************************************)
ActWorkers == {"a1", "a2"}

\* the delegations of the requests: the one holder1 already has in the store,
\* a new one of holder3, and one whose token does not verify
ReqDelegations ==
  {[delegatorPubKey |-> "holder1", conditions |-> "kind=1112&created_at<2&created_at>0",
    delegationToken |-> "sig1", since |-> 0, until |-> 2],
   [delegatorPubKey |-> "holder3", conditions |-> "kind=1112&created_at<3&created_at>0",
    delegationToken |-> "sig3", since |-> 0, until |-> 3],
   [delegatorPubKey |-> "holder1", conditions |-> "kind=1112&created_at<3&created_at>0",
    delegationToken |-> "sigX", since |-> 0, until |-> 3]}

\* the signed activation events: the pubkey is the delegator of the delegation
ActivateEvents ==
  {[pubkey |-> d.delegatorPubKey, otc |-> otc, delegation |-> d] : otc \in Otcs, d \in ReqDelegations}

\* validateDelegation: the token is the delegator's signature over the conditions
validateDelegation(pubkey, conditions, token) ==
  \/ pubkey = "holder1" /\ token = "sig1"
  \/ pubkey = "holder3" /\ token = "sig3"
  \/ pubkey = "holder4" /\ token = "sig4"

NoCard == [uuid |-> "none", ntag424Cid |-> "none", holderPubKey |-> "null", enabled |-> FALSE]

IdleAct == [pc |-> "idle", event |-> [pubkey |-> "none", otc |-> "null",
                                       delegation |-> [delegatorPubKey |-> "none", conditions |-> "none",
                                                       delegationToken |-> "none", since |-> 0, until |-> 0]],
            cid |-> "none", card |-> NoCard, replay |-> FALSE, status |-> 0]

\* the uuids the store gives to the cards it creates
NewCardUuids == {"card2", "card3"}

\* DEFAULT_LIMITS: one limit on BTC, given to every created card
defaultLimits(cardUuid) ==
  {[uuid |-> IF cardUuid = "card2" THEN "l4" ELSE "l5", cardUuid |-> cardUuid,
    token |-> "BTC", amount |-> 2, delta |-> 1]}

\* the handler up to its first await: an invalid delegation is answered 422.
\* replay records that this very event was answered 201 before.
ActivateBegin(w, event) ==
  /\ creq[w].pc = "idle"
  /\ creq' = [creq EXCEPT ![w] =
       IF ~validateDelegation(event.pubkey, event.delegation.conditions, event.delegation.delegationToken)
         THEN [IdleAct EXCEPT !.pc = "done", !.event = event, !.status = 422]
         ELSE [IdleAct EXCEPT !.pc = "findFirst", !.event = event,
                 !.replay = \E g \in ActWorkers :
                              creq[g].pc = "done" /\ creq[g].status = 201 /\ creq[g].event = event]]
  /\ UNCHANGED <<ntag424, vreq, accepted, payVars, cards, holders, delegations, limit, ireq, areq>>
  /\ UNCHANGED restVars

\* a lookup by otc alone, whether or not the NTAG has a card
AvailableNtagsAnyCard(otc) == {cid \in DOMAIN ntag424 : ntag424[cid].otc = otc}

\* the NTAGs that prisma.ntag424.findFirst({where: {otc, card: null}}) may return
AvailableNtags(otc) ==
  {cid \in DOMAIN ntag424 :
     ntag424[cid].otc = otc /\ ~\E c \in cards : c.ntag424Cid = cid}

\* the findFirst resolves: no available NTAG is answered 404
ActivateFindFirst(w) ==
  /\ creq[w].pc = "findFirst"
  /\ IF AvailableNtags(creq[w].event.otc) = {}
       THEN creq' = [creq EXCEPT ![w].pc = "done", ![w].status = 404]
       ELSE \E cid \in AvailableNtags(creq[w].event.otc) :
              creq' = [creq EXCEPT ![w].pc = "upsert", ![w].cid = cid]
  /\ UNCHANGED <<ntag424, vreq, accepted, payVars, cards, holders, delegations, limit, ireq, areq>>
  /\ UNCHANGED restVars

\* findOrCreateHolder: prisma.holder.upsert by pubKey. A new holder is created
\* with the delegation of the request; to an existing one the delegation with
\* that delegationToken is connected, and created if there is none.
ActivateUpsertHolder(w) ==
  /\ creq[w].pc = "upsert"
  /\ LET r == creq[w]
         d == r.event.delegation
         mine == [d EXCEPT !.delegatorPubKey = r.event.pubkey]
         sameToken == {e \in delegations : e.delegationToken = d.delegationToken}
     IN /\ holders' = holders \cup {r.event.pubkey}
        /\ delegations' =
             IF r.event.pubkey \notin holders THEN delegations \cup {mine}
             ELSE IF sameToken = {} THEN delegations \cup {mine}
             ELSE (delegations \ sameToken)
                    \cup {[e EXCEPT !.delegatorPubKey = r.event.pubkey] : e \in sameToken}
  /\ creq' = [creq EXCEPT ![w].pc = "create"]
  /\ UNCHANGED <<ntag424, vreq, accepted, payVars, cards, limit, ireq, areq>>
  /\ UNCHANGED restVars

\* a card.ntag424Cid that is never taken
NtagHasCardNever(cid) == FALSE

\* card.ntag424Cid is unique (the scan looks cards up by it with findUnique):
\* whether a card of this NTAG exists
NtagHasCard(cid) == \E c \in cards : c.ntag424Cid = cid

\* prisma.card.create resolves: the card and its default limits are stored and
\* the code goes on to publish the card data event; a rejected create is
\* answered 500 by the catch
ActivateCreateCard(w) ==
  /\ creq[w].pc = "create"
  /\ LET r == creq[w]
         uuid == CHOOSE u \in NewCardUuids : ~\E c \in cards : c.uuid = u
         card == [uuid |-> uuid, ntag424Cid |-> r.cid, holderPubKey |-> r.event.pubkey,
                  enabled |-> TRUE]
     IN IF NtagHasCard(r.cid)
          THEN /\ creq' = [creq EXCEPT ![w].pc = "done", ![w].status = 500]
               /\ UNCHANGED <<cards, limit>>
          ELSE /\ cards' = cards \cup {card}
               /\ limit' = limit \cup defaultLimits(uuid)
               /\ creq' = [creq EXCEPT ![w].pc = "publish", ![w].card = card]
  /\ UNCHANGED <<ntag424, vreq, accepted, payVars, holders, delegations, ireq, areq>>
  /\ UNCHANGED restVars

\* buildCardDataEvent: the card-data event of the holder, with "d" tag
\* <holderPubKey>:card-data; its content is encrypted to the holder
CardDataEvent(pubkey) == [t |-> "card-data", d |-> pubkey]

\* outbox.publish of the card data event resolves and the card is answered
\* 201, or it rejects and the catch answers 500
ActivatePublish(w, published) ==
  /\ creq[w].pc = "publish"
  /\ IF published
       THEN /\ outbox' = Append(outbox, CardDataEvent(creq[w].event.pubkey))
            /\ creq' = [creq EXCEPT ![w].pc = "done", ![w].status = 201]
       ELSE /\ creq' = [creq EXCEPT ![w].pc = "done", ![w].status = 500]
            /\ UNCHANGED outbox
  /\ UNCHANGED <<ntag424, vreq, accepted, now, payments, paymentRequests, inserts, sreq, preq,
                 answered, cards, holders, delegations, limit, ireq, areq>>
  /\ UNCHANGED restVars

(***************************************************************************)
(* Card-Transfer (POST /card with a card-transfer-acceptance event)        *)
(***************************************************************************)
MaxTransfers == 2

\* a transfer that takes the card from whoever holds it
transferCardFromAnyone(uuid, fromPubKey, toPubKey) ==
  {IF c.uuid = uuid THEN [c EXCEPT !.holderPubKey = toPubKey, !.enabled = FALSE] ELSE c : c \in cards}

\* transferCard: the table after the one update of the cards with this uuid
\* and this holder, which sets enabled = false and holderPubKey = toPubKey
transferCard(uuid, fromPubKey, toPubKey) ==
  {IF c.uuid = uuid /\ c.holderPubKey = fromPubKey
     THEN [c EXCEPT !.holderPubKey = toPubKey, !.enabled = FALSE] ELSE c : c \in cards}

\* the acceptance event of holder `pubkey` arrives: its second p tag names
\* the donor, its donation event is signed by `donation.pubkey` and decrypts
\* to a card uuid; a donor that is not the donation's pubkey is answered 422
TransferBegin(pubkey, donor, donation) ==
  /\ hreq.transfer.pc \in {"idle", "done"}
  /\ Len(outbox) < 2 * MaxTransfers
  /\ hreq' = [hreq EXCEPT !.transfer =
       [pc |-> IF donor # donation.pubkey THEN "done" ELSE "transferCard",
        pubkey |-> pubkey, donor |-> donor, donation |-> donation,
        status |-> IF donor # donation.pubkey THEN 422 ELSE 0]]
  /\ UNCHANGED <<ntag424, vreq, accepted, payVars, cards, holders, delegations, limit, ireq, areq,
                 creq, resetTokens, trustedMerchants>>

\* transferCard resolves: NotFound is answered 404; otherwise the card-data
\* and card-config events of the new holder are published and the answer is 200
TransferCard ==
  /\ hreq.transfer.pc = "transferCard"
  /\ LET r == hreq.transfer
         after == transferCard(r.donation.cardUuid, r.donor, r.pubkey)
     IN IF after = cards
          THEN /\ hreq' = [hreq EXCEPT !.transfer.pc = "done", !.transfer.status = 404]
               /\ UNCHANGED <<cards, outbox>>
          ELSE /\ cards' = after
               /\ outbox' = outbox \o <<CardDataEvent(r.pubkey), [t |-> "card-config", d |-> r.pubkey]>>
               /\ hreq' = [hreq EXCEPT !.transfer.pc = "done", !.transfer.status = 200]
  /\ UNCHANGED <<ntag424, vreq, accepted, now, payments, paymentRequests, inserts, sreq, preq,
                 answered, holders, delegations, limit, ireq, areq, creq, resetTokens,
                 trustedMerchants>>

(***************************************************************************)
(* rest/card/reset/request/post.ts: Admin-Reset-Request                    *)
(***************************************************************************)
\* ADMIN_PUBKEYS
adminPubkeys == {"holder1"}

\* what generateSuuid may return
ResetNonces == {"nonce1", "nonce2"}

IdleResetRequest ==
  [pc |-> "idle", who |-> "none", cid |-> "none", target |-> [p |-> MalformedP, c |-> MalformedC],
   adminPubkey |-> "null", targetPubkey |-> "null", status |-> 0, reason |-> "none"]

\* the tests on the holder of a card, with the target's test left out
ResetRequestErrorTargetUnchecked(who, pubkey) ==
  IF who = "admin" /\ pubkey \notin adminPubkeys THEN "Not an admin" ELSE "none"

\* the tests on the holder that getPubkeyFromPC returned: the admin's must be
\* one of ADMIN_PUBKEYS, the target's must not
ResetRequestError(who, pubkey) ==
  IF who = "admin" /\ pubkey \notin adminPubkeys THEN "Not an admin"
  ELSE IF who = "target" /\ pubkey \in adminPubkeys THEN "Admin cannot be reset"
  ELSE "none"

\* getPubkeyFromPC awaits retrieveNtag424FromPC, which stores the tap's
\* counter when it answers ok: first for the admin's tap, on entry of the
\* handler, then for the target's; an error is answered 400
ResetRequestVerify(who, admin, target) ==
  /\ IF who = "admin" THEN hreq.request.pc \in {"idle", "done"}
                      ELSE hreq.request.pc = "verify" /\ target = hreq.request.target
  /\ LET tap == IF who = "admin" THEN admin ELSE target
         pBytes == decrypt(serverK1, tap.p)
         r == IF who = "admin" THEN [IdleResetRequest EXCEPT !.target = target] ELSE hreq.request
     IN IF VerifiesOk(tap)
          THEN /\ ntag424' = [ntag424 EXCEPT ![pBytes.cid].ctr = ctrNewOf(pBytes.ctr)]
               /\ hreq' = [hreq EXCEPT !.request = [r EXCEPT !.pc = "findCard", !.who = who, !.cid = pBytes.cid]]
          ELSE /\ hreq' = [hreq EXCEPT !.request =
                    [IdleResetRequest EXCEPT !.pc = "done", !.status = 400, !.reason = "Invalid NTAG"]]
               /\ UNCHANGED ntag424
  /\ UNCHANGED <<vreq, accepted, payVars, cards, holders, delegations, limit, ireq, areq, creq,
                 resetTokens, trustedMerchants>>

\* prisma.card.findUnique by ntag424Cid resolves: no card, a card with no
\* holder, an admin that is none and a target that is one are answered 400;
\* after the admin the target is verified, after the target the token is upserted
ResetRequestCard ==
  /\ hreq.request.pc = "findCard"
  /\ LET r == hreq.request
         found == {c \in cards : c.ntag424Cid = r.cid}
         pubkey == IF found = {} THEN "null" ELSE (CHOOSE c \in found : TRUE).holderPubKey
         error == IF found = {} THEN "Failed to retrieve target card data"
                  ELSE IF pubkey = "null" THEN "No target card holder"
                  ELSE ResetRequestError(r.who, pubkey)
     IN hreq' = [hreq EXCEPT !.request =
          IF error # "none"
            THEN [IdleResetRequest EXCEPT !.pc = "done", !.status = 400, !.reason = error]
          ELSE IF r.who = "admin" THEN [r EXCEPT !.pc = "verify", !.adminPubkey = pubkey]
          ELSE [r EXCEPT !.pc = "upsert", !.targetPubkey = pubkey]]
  /\ UNCHANGED <<ntag424, vreq, accepted, payVars, cards, holders, delegations, limit, ireq, areq,
                 creq, resetTokens, trustedMerchants>>

\* prisma.resetToken.upsert by holderPubKey resolves: the holder's token is
\* created, or replaced with a new createdAt; 200 with the nonce
ResetRequestUpsert(token) ==
  /\ hreq.request.pc = "upsert"
  /\ resetTokens' = {t \in resetTokens : t.holderPubKey # hreq.request.targetPubkey}
                      \cup {[holderPubKey |-> hreq.request.targetPubkey, token |-> token, createdAt |-> now]}
  /\ hreq' = [hreq EXCEPT !.request.pc = "done", !.request.status = 200,
                          !.request.target = IdleResetRequest.target]
  /\ UNCHANGED <<ntag424, vreq, accepted, payVars, cards, holders, delegations, limit, ireq, areq,
                 creq, trustedMerchants>>

(***************************************************************************)
(* rest/card/reset/claim/post.ts: Admin-Reset-Claim                        *)
(***************************************************************************)
ClaimWorkers == {"c1", "c2"}

\* RESET_EXPIRY_SECONDS, in the model's time unit
resetExpirySeconds == 2

IdleClaim ==
  [pc |-> "idle", nowAtEntry |-> 0, pubkey |-> "none", otc |-> "none", delegationToken |-> "none",
   holderPubKey |-> "null", createdAt |-> 0, oldDelegation |-> "none", reason |-> "none", reassigned |-> FALSE,
   fundsTransferOK |-> FALSE, identityTransferOK |-> FALSE, identityTransferPropagationOK |-> FALSE,
   fundsPublished |-> FALSE, identityPublished |-> FALSE, idp |-> "none", status |-> 0]

\* the handler up to its first await: now is read, the event and its
\* delegation are validated (422)
ClaimBegin(w, pubkey, otc, delegationToken) ==
  /\ hreq.claim[w].pc = "idle"
  /\ hreq' = [hreq EXCEPT !.claim[w] =
       IF validateDelegation(pubkey, "kind=1112&created_at<3&created_at>0", delegationToken)
         THEN [IdleClaim EXCEPT !.pc = "findToken", !.nowAtEntry = now, !.pubkey = pubkey,
                                !.otc = otc, !.delegationToken = delegationToken]
         ELSE [IdleClaim EXCEPT !.pc = "done", !.pubkey = pubkey, !.otc = otc, !.status = 422,
                                !.reason = "Invalid delegation"]]
  /\ UNCHANGED <<ntag424, vreq, accepted, payVars, cards, holders, delegations, limit, ireq, areq,
                 creq, resetTokens, trustedMerchants>>

\* floor(createdAt / 1000) + RESET_EXPIRY_SECONDS < now
ResetTokenExpired(createdAt, nowAtEntry) == createdAt + resetExpirySeconds < nowAtEntry

\* prisma.resetToken.findFirst({where: {token: otc}}) resolves: no token is
\* answered 422; an expired one is deleted next
ClaimFindToken(w) ==
  /\ hreq.claim[w].pc = "findToken"
  /\ LET r == hreq.claim[w]
         found == {t \in resetTokens : t.token = r.otc}
     IN hreq' = [hreq EXCEPT !.claim[w] =
          IF found = {}
            THEN [r EXCEPT !.pc = "done", !.status = 422, !.reason = "Reset token not found"]
          ELSE LET t == CHOOSE x \in found : TRUE
               IN IF ResetTokenExpired(t.createdAt, r.nowAtEntry)
                    THEN [r EXCEPT !.pc = "delete", !.holderPubKey = t.holderPubKey,
                                   !.createdAt = t.createdAt, !.reason = "Reset token expired"]
                    ELSE [r EXCEPT !.pc = "findHolder", !.holderPubKey = t.holderPubKey,
                                   !.createdAt = t.createdAt]]
  /\ UNCHANGED <<ntag424, vreq, accepted, payVars, cards, holders, delegations, limit, ireq, areq,
                 creq, resetTokens, trustedMerchants>>

\* prisma.holder.findUnique of the token's holder, then prisma.delegation.
\* findFirst of a delegation of that holder valid now, each at its own await:
\* a missing one makes the delete the last step before the 422
ClaimCheck(w) ==
  /\ hreq.claim[w].pc \in {"findHolder", "findDelegation"}
  /\ LET r == hreq.claim[w]
         valid == {d \in delegations :
                     d.delegatorPubKey = r.holderPubKey /\ d.since <= now /\ now <= d.until}
     IN hreq' = [hreq EXCEPT !.claim[w] =
          IF r.pc = "findHolder"
            THEN IF r.holderPubKey \in holders THEN [r EXCEPT !.pc = "findDelegation"]
                 ELSE [r EXCEPT !.pc = "delete", !.reason = "Holder does not exist anymore"]
          ELSE IF valid = {} THEN [r EXCEPT !.pc = "delete", !.reason = "Holder has no valid delegations"]
          ELSE [r EXCEPT !.pc = "delete", !.oldDelegation = (CHOOSE d \in valid : TRUE).delegationToken]]
  /\ UNCHANGED <<ntag424, vreq, accepted, payVars, cards, holders, delegations, limit, ireq, areq,
                 creq, resetTokens, trustedMerchants>>

\* the delete that leaves the row where it is
ClaimDeleteKeepsToken(w) ==
  /\ hreq.claim[w].pc = "delete"
  /\ LET r == hreq.claim[w]
         rows == {t \in resetTokens : t.holderPubKey = r.holderPubKey}
     IN /\ resetTokens' = resetTokens
        /\ hreq' = [hreq EXCEPT !.claim[w] =
             IF rows = {} THEN [r EXCEPT !.pc = "done", !.status = 0, !.reason = "unhandled rejection"]
             ELSE IF r.reason # "none" THEN [r EXCEPT !.pc = "done", !.status = 422]
             ELSE [r EXCEPT !.pc = "cloneHolder"]]
  /\ UNCHANGED <<ntag424, vreq, accepted, payVars, cards, holders, delegations, limit, ireq, areq,
                 creq, trustedMerchants>>

\* prisma.resetToken.delete({where: {holderPubKey}}) resolves: a row is
\* deleted and the handler answers the 422 it came here for, or goes on past
\* the point of no return; with no row the delete throws, which no code of
\* the handler catches
ClaimDelete(w) ==
  /\ hreq.claim[w].pc = "delete"
  /\ LET r == hreq.claim[w]
         rows == {t \in resetTokens : t.holderPubKey = r.holderPubKey}
     IN /\ resetTokens' = resetTokens \ rows
        /\ hreq' = [hreq EXCEPT !.claim[w] =
             IF rows = {} THEN [r EXCEPT !.pc = "done", !.status = 0, !.reason = "unhandled rejection"]
             ELSE IF r.reason # "none" THEN [r EXCEPT !.pc = "done", !.status = 422]
             ELSE [r EXCEPT !.pc = "cloneHolder"]]
  /\ UNCHANGED <<ntag424, vreq, accepted, payVars, cards, holders, delegations, limit, ireq, areq,
                 creq, trustedMerchants>>

\* cloneHolder: a claimant that is a holder already is answered 422;
\* otherwise the holder is created with the delegation of the request and a
\* copy of the old holder's trusted merchants
ClaimCloneHolder(w) ==
  /\ hreq.claim[w].pc = "cloneHolder"
  /\ LET r == hreq.claim[w]
     IN IF r.pubkey \in holders
          THEN /\ hreq' = [hreq EXCEPT !.claim[w].pc = "done", !.claim[w].status = 422,
                                       !.claim[w].reason = "Holder collision"]
               /\ UNCHANGED <<holders, delegations, trustedMerchants>>
          ELSE /\ holders' = holders \cup {r.pubkey}
               /\ delegations' = delegations \cup
                    {[delegatorPubKey |-> r.pubkey, conditions |-> "kind=1112&created_at<3&created_at>0",
                      delegationToken |-> r.delegationToken, since |-> 0, until |-> 3]}
               /\ trustedMerchants' = trustedMerchants \cup
                    {[m EXCEPT !.holderPubKey = r.pubkey] :
                       m \in {x \in trustedMerchants : x.holderPubKey = r.holderPubKey}}
               /\ hreq' = [hreq EXCEPT !.claim[w].pc = "updateMany"]
  /\ UNCHANGED <<ntag424, vreq, accepted, payVars, cards, limit, ireq, areq, creq, resetTokens>>

\* prisma.card.updateMany: the cards of the old holder go to the new one
ClaimUpdateMany(w) ==
  /\ hreq.claim[w].pc = "updateMany"
  /\ cards' = {IF c.holderPubKey = hreq.claim[w].holderPubKey
                 THEN [c EXCEPT !.holderPubKey = hreq.claim[w].pubkey] ELSE c : c \in cards}
  /\ hreq' = [hreq EXCEPT !.claim[w].pc = "funds", !.claim[w].reassigned = TRUE]
  /\ UNCHANGED <<ntag424, vreq, accepted, payVars, holders, delegations, limit, ireq, areq, creq,
                 resetTokens, trustedMerchants>>

\* the two publishes, each in its own try: the funds transfer, then the
\* identity-transfer-ok event; a publish that throws leaves its flag false
ClaimPublish(w, published) ==
  /\ hreq.claim[w].pc \in {"funds", "identity"}
  /\ LET r == hreq.claim[w]
         t == IF r.pc = "funds" THEN "internal-transaction-start" ELSE "identity-transfer-ok"
     IN /\ outbox' = IF published
                       THEN Append(outbox, [t |-> t, p |-> r.pubkey, delegation |-> r.oldDelegation])
                       ELSE outbox
        /\ hreq' = [hreq EXCEPT !.claim[w] =
             IF r.pc = "funds"
               THEN [r EXCEPT !.pc = "identity", !.fundsTransferOK = published, !.fundsPublished = published]
               ELSE [r EXCEPT !.pc = "identityProvider", !.identityTransferOK = published,
                              !.identityPublished = published]]
  /\ UNCHANGED <<ntag424, vreq, accepted, now, payments, paymentRequests, inserts, sreq, preq,
                 answered, cards, holders, delegations, limit, ireq, areq, creq, resetTokens,
                 trustedMerchants>>

\* callIdentityProvider: fetch answers a name, or an error (non-2xx, not
\* JSON, no name), and the handler answers 201 with the three flags; or fetch
\* throws, outside any try of the handler
ClaimIdentityProvider(w, outcome) ==
  /\ hreq.claim[w].pc = "identityProvider"
  /\ hreq' = [hreq EXCEPT !.claim[w] =
       IF outcome = "throws"
         THEN [@ EXCEPT !.pc = "done", !.idp = outcome, !.status = 0, !.reason = "unhandled rejection"]
         ELSE [@ EXCEPT !.pc = "done", !.idp = outcome, !.status = 201,
                        !.identityTransferPropagationOK = (outcome = "name")]]
  /\ UNCHANGED <<ntag424, vreq, accepted, payVars, cards, holders, delegations, limit, ireq, areq,
                 creq, resetTokens, trustedMerchants>>

(***************************************************************************)
(* nostr/cardConfig.ts: inbound card-config-change events                  *)
(***************************************************************************)
MaxConfigChanges == 2

\* table merchants
Merchants == {"merchant1", "merchant2"}

\* what an event says of one card: limits and status, each present or not
CardEntry(hasLimits, amount, hasStatus, status) ==
  [hasLimits |-> hasLimits, amount |-> amount, hasStatus |-> hasStatus, status |-> status]

\* the decrypted contents: trusted merchants, present or not, one of them no
\* merchant of the registry, and entries for cards, one of them no card of
\* the store
ConfigContents ==
  {[hasTrustedMerchants |-> FALSE, trustedMerchants |-> {},
    cards |-> [u \in {"card1", "card2"} |-> CardEntry(TRUE, 1, TRUE, "DISABLED")]],
   [hasTrustedMerchants |-> TRUE, trustedMerchants |-> {"merchant2", "merchantX"},
    cards |-> EmptyMap],
   [hasTrustedMerchants |-> TRUE, trustedMerchants |-> {},
    cards |-> [u \in {"cardZ"} |-> CardEntry(FALSE, 0, TRUE, "ENABLED")]],
   [hasTrustedMerchants |-> FALSE, trustedMerchants |-> {},
    cards |-> [u \in {"card1", "card2"} |->
                 IF u = "card1" THEN CardEntry(FALSE, 0, TRUE, "ENABLED")
                 ELSE CardEntry(TRUE, 0, FALSE, "ENABLED")]]}

cardPublicKey == "card"

\* the event ids of the card-config-change events, in the order of arrival
EventIds == <<"event1", "event2", "event3", "event4">>

Tag(name, value) == [name |-> name, value |-> value]

\* buildMultiNip04Event: an event of kind 4 whose content is readable by the
\* recipients, each named in a "p" tag
buildMultiNip04Event(recipients) ==
  [kind |-> 4, tags |-> [i \in 1..Len(recipients) |-> Tag("p", <<recipients[i]>>)]]

\* buildCardConfigEvent: the kind is set; event.tags.concat([...]) builds a
\* new array, which is dropped, and the tags of the event stay what they were
buildCardConfigEvent(holderPubKey) ==
  [buildMultiNip04Event(<<cardPublicKey, holderPubKey>>) EXCEPT !.kind = 31111]

\* configAckEvent of the handler: built like the card-config event, its
\* concat with the "e", "t" and "d" tags dropped likewise
configAckEvent(holderPubKey, eventId) ==
  [buildMultiNip04Event(<<cardPublicKey, holderPubKey>>) EXCEPT !.kind = 31111]

\* every card of the store, whoever holds it
holderCardUuidsOfAnyone(holderPubKey) == {c.uuid : c \in cards}

\* tx.card.findMany({where: {holderPubKey}}): the uuids of the holder's cards
holderCardUuids(holderPubKey) == {c.uuid : c \in {x \in cards : x.holderPubKey = holderPubKey}}

\* the handler of one event, its transaction committed or rolled back: the
\* holder's trusted merchants are replaced by the known merchants of the
\* event; of the event's cards those of the holder get their limits replaced
\* and their status set, each when present; the confirming event is published
\* as the last step of the transaction
ConfigChange(holderPubKey, content, committed) ==
  /\ hreq.config.n < MaxConfigChanges
  /\ hreq' = [hreq EXCEPT !.config = [n |-> @.n + 1, id |-> EventIds[@.n + 1], pubkey |-> holderPubKey,
                                      content |-> content, committed |-> committed]]
  /\ IF ~committed THEN UNCHANGED <<trustedMerchants, limit, cards, outbox>>
     ELSE LET applied == (DOMAIN content.cards) \cap holderCardUuids(holderPubKey)
              relimited == {u \in applied : content.cards[u].hasLimits}
          IN /\ trustedMerchants' =
                  IF content.hasTrustedMerchants
                    THEN {m \in trustedMerchants : m.holderPubKey # holderPubKey}
                           \cup {[holderPubKey |-> holderPubKey, merchantPubKey |-> k] :
                                   k \in content.trustedMerchants \cap Merchants}
                    ELSE trustedMerchants
             /\ limit' = {l \in limit : l.cardUuid \notin relimited}
                           \cup {[uuid |-> IF u = "card1" THEN "l6" ELSE "l7", cardUuid |-> u,
                                  token |-> "BTC", amount |-> content.cards[u].amount, delta |-> 1] :
                                   u \in {x \in relimited : content.cards[x].amount > 0}}
             /\ cards' = {IF c.uuid \in applied /\ content.cards[c.uuid].hasStatus
                            THEN [c EXCEPT !.enabled = (content.cards[c.uuid].status = "ENABLED")]
                            ELSE c : c \in cards}
             /\ outbox' = Append(outbox, configAckEvent(holderPubKey, EventIds[hreq.config.n + 1]))
  /\ UNCHANGED <<ntag424, vreq, accepted, now, payments, paymentRequests, inserts, sreq, preq,
                 answered, holders, delegations, ireq, areq, creq, resetTokens>>

(***************************************************************************)
(* rest/card/scan/get.ts: the scan actions around retrieveNtag424FromPC    *)
(***************************************************************************)
\* handleScan (no action header) and the handlers of actionHandlers
ScanActions == {"scan", "extendedScan", "identityQuery", "payRequest", "info"}

IdleScanAction ==
  [action |-> "none", pc |-> "idle", status |-> 0, reason |-> <<>>, error |-> "none",
   ctr |-> 0, ctrNew |-> 0]

\* getHandler picks the handler of the action, which calls and awaits
\* retrieveNtag424FromPC with the request's p and c
ScanActionBegin(v, action, tap) ==
  /\ hreq.scan[v].pc # "verifying"
  /\ VerifyBegin(v, tap)
  /\ hreq' = [hreq EXCEPT !.scan[v] = [IdleScanAction EXCEPT !.action = action, !.pc = "verifying"]]
  /\ UNCHANGED <<payVars, cards, holders, delegations, limit, ireq, areq, creq, resetTokens,
                 trustedMerchants>>

\* the reason of the 400 as the claim words it
ScanErrorReasonFixed(error) == <<"Failed to retrieve card data">>

\* 'Failed to retrieve card data --- ' + ntag424.error
ScanErrorReason(error) == <<"Failed to retrieve card data --- ", error>>

\* retrieveNtag424FromPC has returned to the handler. Every handler but
\* handleInfo answers an error with 400 and its reason, and goes on to look the
\* card up otherwise; handleInfo answers 200 with the error, or with the NTAG
\* as the verifier read it and the counter as the store holds it now
ScanActionAnswer(v) ==
  /\ hreq.scan[v].pc = "verifying"
  /\ vreq[v].pc = "done"
  /\ LET r == vreq[v]
         q == hreq.scan[v]
     IN hreq' = [hreq EXCEPT !.scan[v] =
          IF q.action = "info"
            THEN IF r.result # "ok" THEN [q EXCEPT !.pc = "done", !.status = 200, !.error = r.result]
                 ELSE [q EXCEPT !.pc = "done", !.status = 200, !.ctr = r.ctrOld,
                                !.ctrNew = ntag424[r.cid].ctr]
          ELSE IF r.result # "ok"
            THEN [q EXCEPT !.pc = "done", !.status = 400, !.reason = ScanErrorReason(r.result),
                           !.error = r.result]
          ELSE [q EXCEPT !.pc = "findCard"]]
  /\ UNCHANGED <<ntag424, vreq, accepted, payVars, cards, holders, delegations, limit, ireq, areq,
                 creq, resetTokens, trustedMerchants>>

(***************************************************************************)
(* lib/utils.ts: uuid2suuid and suuid2uuid. Strings are sequences of        *)
(* characters; a bigint is the sequence of its base-16 digits, most         *)
(* significant first.                                                       *)
(***************************************************************************)
sAlpha ==
  <<"A", "B", "C", "D", "E", "F", "G", "H", "I", "J", "K", "L", "M", "N", "O", "P",
    "Q", "R", "S", "T", "U", "V", "W", "X", "Y", "Z", "a", "b", "c", "d", "e", "f",
    "g", "h", "i", "j", "k", "l", "m", "n", "o", "p", "q", "r", "s", "t", "u", "v",
    "w", "x", "y", "z", "0", "1", "2", "3", "4", "5", "6", "7", "8", "9", "-", "_">>

sAlphaLength == Len(sAlpha)

HexDigits == <<"0", "1", "2", "3", "4", "5", "6", "7", "8", "9", "a", "b", "c", "d", "e", "f">>

UpperHexDigits == <<"0", "1", "2", "3", "4", "5", "6", "7", "8", "9", "A", "B", "C", "D", "E", "F">>

Null == <<"null">>

CharsOf(str) == {str[i] : i \in 1..Len(str)}

IndexOf(str, c) == (CHOOSE i \in 1..Len(str) : str[i] = c) - 1

\* parseInt(_, 16) of one digit, of either case
HexValue(c) == IF c \in CharsOf(HexDigits) THEN IndexOf(HexDigits, c) ELSE IndexOf(UpperHexDigits, c)

\* uuidRegex, with its flag i: 8-4-4-4-12 hex digits of either case
MatchesUuidRegex(uuid) ==
  /\ Len(uuid) = 36
  /\ \A i \in 1..36 :
       IF i \in {9, 14, 19, 24} THEN uuid[i] = "-"
       ELSE uuid[i] \in CharsOf(HexDigits) \cup CharsOf(UpperHexDigits)

\* the elements of str that Keep holds of, in their order
Filter(str, Keep(_)) ==
  LET kept == {i \in 1..Len(str) : Keep(str[i])}
  IN [j \in 1..Cardinality(kept) |-> str[CHOOSE i \in kept : Cardinality({k \in kept : k <= i}) = j]]

\* a BigInt is the sequence of its binary digits, most significant first
IsZero(n) == \A i \in 1..Len(n) : n[i] = 0

\* n without its leading zeros
Stripped(n) ==
  IF IsZero(n) THEN <<>>
  ELSE SubSeq(n, CHOOSE i \in 1..Len(n) : n[i] # 0 /\ \A j \in 1..(i - 1) : n[j] = 0, Len(n))

padStart(str, len, c) == [i \in 1..(len - Len(str)) |-> c] \o str

\* the binary digits of a sequence of digits of `bits` binary digits each
BitsOf(digits, bits) ==
  [k \in 1..(bits * Len(digits)) |->
     (digits[(k + bits - 1) \div bits] \div (2 ^ (bits - 1 - ((k - 1) % bits)))) % 2]

RECURSIVE ValueOf(_, _, _)
\* the value of the binary digits n[from], ..., n[from + bits - 1]
ValueOf(n, from, bits) ==
  IF bits = 0 THEN 0 ELSE 2 * ValueOf(n, from, bits - 1) + n[from + bits - 1]

\* n in digits of `bits` binary digits each, without leading zero digits
DigitsOf(n, bits) ==
  LET sig == Stripped(n)
      len == (Len(sig) + bits - 1) \div bits
      padded == padStart(sig, bits * len, 0)
  IN [j \in 1..len |-> ValueOf(padded, bits * (j - 1) + 1, bits)]

\* sAlphaLength is 2^6: n % sAlphaLength is the last six binary digits of n
\* and n / sAlphaLength is what stands before them
sAlphaBits == CHOOSE b \in 1..8 : 2 ^ b = sAlphaLength

\* the pairs of hex digits, each parseInt(hexPair, 16), reduced by
\* acc * 256n + curr: the four binary digits of every hex digit in a row
BigIntOfHex(hex) == BitsOf([i \in 1..Len(hex) |-> HexValue(hex[i])], 4)

\* n.toString(16), as digit values; the empty sequence for 0
toString16(n) == DigitsOf(n, 4)

\* do { suuid = sAlpha[n % sAlphaLength] + suuid; n = n / sAlphaLength } while (n):
\* one character for every six binary digits of n, from the end, and one
\* character for n = 0
Encode(n) ==
  LET digits == DigitsOf(n, sAlphaBits)
  IN IF digits = <<>> THEN <<sAlpha[1]>>
     ELSE [j \in 1..Len(digits) |-> sAlpha[digits[j] + 1]]

uuid2suuid(uuid) ==
  IF ~MatchesUuidRegex(uuid) THEN Null
  ELSE LET hex == Filter(uuid, LAMBDA c : c # "-")
       IN padStart(Encode(BigIntOfHex(hex)), 22, sAlpha[1])

LineTerminators == {"\n", "\r"}

\* str.match(/./g): the characters that are no line terminators
MatchAny(str) == Filter(str, LAMBDA c : c \notin LineTerminators)

\* reduce((acc, curr) => acc * sAlphaLength + curr, 0n) over the indices of
\* the characters: each step puts the six binary digits of curr after acc
Decode(chars) == BitsOf([i \in 1..Len(chars) |-> IndexOf(sAlpha, chars[i])], sAlphaBits)

\* 0xffffffffffffffffffffffffffffffffn < n
TooLarge(n) == Len(Stripped(n)) > 128

suuid2uuid(suuid) ==
  LET chars == MatchAny(suuid)
  IN IF chars = <<>> \/ ~(CharsOf(chars) \subseteq CharsOf(sAlpha)) THEN Null
     ELSE LET n == Decode(chars)
          IN IF TooLarge(n) THEN Null
             ELSE LET digits == padStart(toString16(n), 32, 0)
                      uuid == [i \in 1..32 |-> HexDigits[digits[i] + 1]]
                  IN SubSeq(uuid, 1, 8) \o <<"-">> \o SubSeq(uuid, 9, 12) \o <<"-">>
                       \o SubSeq(uuid, 13, 16) \o <<"-">> \o SubSeq(uuid, 17, 20) \o <<"-">>
                       \o SubSeq(uuid, 21, 32)

\* the uuids handed to uuid2suuid: 32 digits, the first k of them one digit
\* and the rest another, written 8-4-4-4-12; and strings that are no uuids
UuidInputs ==
  LET dashed(hex) == SubSeq(hex, 1, 8) \o <<"-">> \o SubSeq(hex, 9, 12) \o <<"-">>
                       \o SubSeq(hex, 13, 16) \o <<"-">> \o SubSeq(hex, 17, 20) \o <<"-">>
                       \o SubSeq(hex, 21, 32)
      hexes == {[i \in 1..32 |-> IF i <= k THEN a ELSE b] :
                  a \in {"0", "1", "7", "a", "f", "C"}, b \in {"0", "3", "9", "e", "f", "F"},
                  k \in {0, 1, 16, 31}}
  IN {dashed(h) : h \in hexes}
       \cup {[i \in 1..32 |-> "a"], [i \in 1..36 |-> IF i \in {9, 14, 19, 24} THEN "-" ELSE "g"],
             dashed([i \in 1..32 |-> "0"]) \o <<"0">>}

\* the strings handed to suuid2uuid: of 0, 1, 22 and 23 characters, below, at
\* and above 2^128 - 1, and with characters that are not of the alphabet
SuuidInputs ==
  {[i \in 1..len |-> IF i = 1 THEN a ELSE b] :
     a \in {"A", "B", "D", "E", "Q", "_", "!", "\n"}, b \in {"A", "z", "_", "=", "\r"},
     len \in {0, 1, 22, 23}}

IdleSuuid == [op |-> "none", input |-> <<>>, suuid |-> <<>>, uuid |-> <<>>]

\* a uuid is encoded (the k1 of a scan) and the result decoded (by pay)
Uuid2Suuid(uuid) ==
  /\ hreq.suuid.op = "none"
  /\ hreq' = [hreq EXCEPT !.suuid =
       LET suuid == uuid2suuid(uuid)
       IN [op |-> "uuid2suuid", input |-> uuid, suuid |-> suuid,
           uuid |-> IF suuid = Null THEN Null ELSE suuid2uuid(suuid)]]
  /\ UNCHANGED <<ntag424, vreq, accepted, payVars, cards, holders, delegations, limit, ireq, areq,
                 creq, resetTokens, trustedMerchants>>

\* a k1 of a client is decoded
Suuid2Uuid(suuid) ==
  /\ hreq.suuid.op = "none"
  /\ hreq' = [hreq EXCEPT !.suuid =
       [op |-> "suuid2uuid", input |-> suuid, suuid |-> suuid, uuid |-> suuid2uuid(suuid)]]
  /\ UNCHANGED <<ntag424, vreq, accepted, payVars, cards, holders, delegations, limit, ireq, areq,
                 creq, resetTokens, trustedMerchants>>

(***************************************************************************)
(* lib/utils.ts: setUpSubscriptions                                        *)
(***************************************************************************)
MaxDeliveries == 3

\* the events a relay may deliver for the filter: of a holder or of a
\* stranger, with a good or a bad signature, recent or too old
DeliveredEvents ==
  {[pubkey |-> pk, content |-> c, signed |-> sg, recent |-> rc] :
     pk \in {"holder1", "holder3", "stranger"}, c \in ConfigContents, sg \in BOOLEAN, rc \in BOOLEAN}

IdleSubscription ==
  [n |-> 0, event |-> [pubkey |-> "none", content |-> [hasTrustedMerchants |-> FALSE,
                       trustedMerchants |-> {}, cards |-> EmptyMap], signed |-> FALSE, recent |-> FALSE],
   preflight |-> "none", handlerBuilt |-> FALSE, handlerCalledWith |-> "none"]

\* the listener of 'event': it takes no argument, calls getHandler(ctx, 0),
\* which builds and returns the handler, and drops what it returns; no
\* preflight is run and the handler is not called
SubscriptionEvent(event) ==
  /\ hreq.subscription.n < MaxDeliveries
  /\ hreq' = [hreq EXCEPT !.subscription =
       [n |-> @.n + 1, event |-> event, preflight |-> "none", handlerBuilt |-> TRUE,
        handlerCalledWith |-> "none"]]
  /\ UNCHANGED <<ntag424, vreq, accepted, payVars, cards, holders, delegations, limit, ireq, areq,
                 creq, resetTokens, trustedMerchants>>

(***************************************************************************)
(* lib/event.ts: the signed-event preflight                                *)
(***************************************************************************)
\* MAX_EVENT_AGE, in the model's time unit
maxEventAge == 2

NoDelegation == [delegator |-> "none", token |-> <<"none", "none">>]

\* the events of the preflight: signed by a holder or by a delegatee, well
\* formed or not, with a good or a bad signature, with no delegation tag, with
\* one of holder1 or holder2 for the signer, or with one whose token was made
\* for another key
DelegationsFor(pk) ==
  {NoDelegation} \cup
  {[delegator |-> g, token |-> <<g, k>>] : g \in {"holder1", "holder2"}, k \in {pk, "other"}}

PreflightEvents ==
  UNION {{[pubkey |-> pk, structure |-> st, sig |-> sg, delegation |-> d, created_at |-> t] :
            st \in BOOLEAN, sg \in BOOLEAN, d \in DelegationsFor(pk), t \in 0..MaxNow} :
         pk \in {"holder1", "delegatee"}}

\* nip26.getDelegator: the delegator of the delegation tag when its token
\* signs the delegation of the event's pubkey under the delegator's key
getDelegator(event) ==
  IF event.delegation.token = <<event.delegation.delegator, event.pubkey>>
    THEN event.delegation.delegator
    ELSE "null"

\* validateNip26 with the pubkey left as it was
validateNip26KeepPubkey(event) ==
  IF event.delegation # NoDelegation /\ getDelegator(event) = "null"
    THEN [ok |-> FALSE, event |-> event]
    ELSE [ok |-> TRUE, event |-> event]

\* validateNip26: false for a delegation tag with no delegator; with one the
\* pubkey of the event becomes the delegator
validateNip26(event) ==
  IF event.delegation = NoDelegation THEN [ok |-> TRUE, event |-> event]
  ELSE IF getDelegator(event) # "null"
    THEN [ok |-> TRUE, event |-> [event EXCEPT !.pubkey = getDelegator(event)]]
  ELSE [ok |-> FALSE, event |-> event]

\* parseEventBody: the event, its pubkey rewritten, or null; expectedPubkey
\* "" stands for none given
parseEventBody(event, expectedPubkey) ==
  LET v == validateNip26(event)
  IN IF ~event.structure THEN [ok |-> FALSE, event |-> event]
     ELSE IF ~event.sig THEN [ok |-> FALSE, event |-> event]
     ELSE IF ~v.ok THEN [ok |-> FALSE, event |-> event]
     ELSE IF event.created_at + maxEventAge < now THEN [ok |-> FALSE, event |-> v.event]
     ELSE IF expectedPubkey # "" /\ v.event.pubkey # expectedPubkey THEN [ok |-> FALSE, event |-> v.event]
     ELSE [ok |-> TRUE, event |-> v.event]

IdlePreflight ==
  [op |-> "none", at |-> 0, expectedPubkey |-> "",
   input |-> [pubkey |-> "none", structure |-> FALSE, sig |-> FALSE, delegation |-> NoDelegation,
              created_at |-> 0],
   result |-> [ok |-> FALSE, event |-> [pubkey |-> "none", structure |-> FALSE, sig |-> FALSE,
                                        delegation |-> NoDelegation, created_at |-> 0]]]

\* a handler runs the preflight on the body of its request
ParseEventBody(event, expectedPubkey) ==
  /\ hreq.preflight.op = "none"
  /\ hreq' = [hreq EXCEPT !.preflight =
       [op |-> "parseEventBody", at |-> now, expectedPubkey |-> expectedPubkey, input |-> event,
        result |-> parseEventBody(event, expectedPubkey)]]
  /\ UNCHANGED <<ntag424, vreq, accepted, payVars, cards, holders, delegations, limit, ireq, areq,
                 creq, resetTokens, trustedMerchants>>

(***************************************************************************)
(* lib/event.ts: the conditions of a delegation                            *)
(***************************************************************************)
MaxParts == 4

\* the parts between the '&' of a conditions string: what stands before the
\* digits, and the digits
Prefixes == {"kind=", "created_at>", "created_at<", "x="}

PrefixLength(prefix) ==
  CASE prefix = "kind=" -> 5
    [] prefix = "created_at>" -> 11
    [] prefix = "created_at<" -> 11
    [] OTHER -> 2

ConditionParts == {[prefix |-> x, digits |-> d] : x \in Prefixes, d \in {<<1>>, <<2>>, <<0>>}}

ConditionInputs == UNION {[1..n -> ConditionParts] : n \in 1..MaxParts}

\* ^<prefix>(?<n>[1-9][0-9]*)$ matched against a whole part
MatchesCondition(prefix, part) ==
  part.prefix = prefix /\ Len(part.digits) > 0 /\ part.digits[1] # 0

RECURSIVE parseInt(_)
parseInt(digits) ==
  IF digits = <<>> THEN 0
  ELSE 10 * parseInt(SubSeq(digits, 1, Len(digits) - 1)) + digits[Len(digits)]

\* RegExp.prototype.exec of a regular expression with the g flag: the search
\* starts at lastIndex, where ^ matches only if lastIndex is 0; a match
\* leaves lastIndex at its end, a failure at 0
exec(prefix, lastIndex, part) ==
  IF lastIndex = 0 /\ MatchesCondition(prefix, part)
    THEN [match |-> TRUE, lastIndex |-> PrefixLength(part.prefix) + Len(part.digits)]
    ELSE [match |-> FALSE, lastIndex |-> 0]

NoConditions == [ok |-> FALSE, kind |-> 0, since |-> 0, until |-> 0]

\* the loop of validateDelegationConditions from part i on; 0 stands for a
\* value not set yet, rKind, rSince, rUntil for the lastIndex of each
RECURSIVE conditionsLoop(_, _, _)
conditionsLoop(parts, i, st) ==
  IF i > Len(parts) \/ st.rejected THEN st
  ELSE LET mKind == exec("kind=", st.rKind, parts[i])
           mSince == exec("created_at>", st.rSince, parts[i])
           mUntil == exec("created_at<", st.rUntil, parts[i])
           st1 == [st EXCEPT !.rKind = mKind.lastIndex, !.rSince = mSince.lastIndex,
                             !.rUntil = mUntil.lastIndex]
           st2 == IF mKind.match
                    THEN IF st.kind = 0 THEN [st1 EXCEPT !.kind = parseInt(parts[i].digits)]
                         ELSE [st1 EXCEPT !.rejected = TRUE]
                  ELSE IF mSince.match
                    THEN IF st.since = 0 THEN [st1 EXCEPT !.since = parseInt(parts[i].digits)]
                         ELSE [st1 EXCEPT !.rejected = TRUE]
                  ELSE IF mUntil.match
                    THEN IF st.until = 0 THEN [st1 EXCEPT !.until = parseInt(parts[i].digits)]
                         ELSE [st1 EXCEPT !.rejected = TRUE]
                  ELSE st1
       IN conditionsLoop(parts, i + 1, st2)

validateDelegationConditions(parts) ==
  LET st == conditionsLoop(parts, 1, [kind |-> 0, since |-> 0, until |-> 0, rKind |-> 0,
                                      rSince |-> 0, rUntil |-> 0, rejected |-> FALSE])
  IN IF st.rejected \/ st.kind = 0 \/ st.since = 0 \/ st.until = 0 \/ st.until <= st.since
       THEN NoConditions
       ELSE [ok |-> TRUE, kind |-> st.kind, since |-> st.since, until |-> st.until]

IdleConditions == [op |-> "none", input |-> <<>>, result |-> NoConditions]

\* the conditions of a delegation are validated
ValidateDelegationConditions(parts) ==
  /\ hreq.conditions.op = "none"
  /\ hreq' = [hreq EXCEPT !.conditions =
       [op |-> "validateDelegationConditions", input |-> parts,
        result |-> validateDelegationConditions(parts)]]
  /\ UNCHANGED <<ntag424, vreq, accepted, payVars, cards, holders, delegations, limit, ireq, areq,
                 creq, resetTokens, trustedMerchants>>

\* the other handlers before any request
IdleH ==
  [transfer |-> [pc |-> "idle"], request |-> IdleResetRequest,
   claim |-> [w \in ClaimWorkers |-> IdleClaim],
   scan |-> [v \in Verifiers |-> IdleScanAction], suuid |-> IdleSuuid,
   subscription |-> IdleSubscription, preflight |-> IdlePreflight,
   conditions |-> IdleConditions,
   config |-> [n |-> 0, id |-> "none", pubkey |-> "none", content |-> [hasTrustedMerchants |-> FALSE,
               trustedMerchants |-> {}, cards |-> EmptyMap], committed |-> FALSE]]

Init ==
  /\ ntag424 = InitNtag424
  /\ vreq = [v \in Verifiers |-> IdleV]
  /\ accepted = [cid \in Cids |-> {}]
  /\ now = 0
  /\ payments = <<>>
  /\ paymentRequests = <<>>
  /\ outbox = <<>>
  /\ inserts = {}
  /\ sreq = IdleScan
  /\ preq = [h \in PayWorkers |-> IdlePay]
  /\ answered = {}
  /\ cards = Cards
  /\ holders = {"holder1", "holder2"}
  /\ delegations = Delegations
  /\ limit = Limits
  /\ ireq = IdleInit
  /\ areq = IdleAssoc
  /\ creq = [w \in ActWorkers |-> IdleAct]
  /\ resetTokens = {}
  /\ trustedMerchants = {[holderPubKey |-> "holder1", merchantPubKey |-> "merchant1"]}
  /\ hreq = IdleH

\* concurrent calls of retrieveNtag424FromPC, each at one of its awaits
NextVerify ==
  \/ \E v \in Verifiers, tap \in Taps : VerifyBegin(v, tap) /\ UNCHANGED <<payVars, provVars>>
  \/ \E v \in Verifiers : VerifyFindUnique(v) /\ UNCHANGED <<payVars, provVars>>
  \/ \E v \in Verifiers : VerifySdmmac(v) /\ UNCHANGED <<payVars, provVars>>
  \/ \E v \in Verifiers : VerifyUpdate(v) /\ UNCHANGED <<payVars, provVars>>

SpecVerify == Init /\ [][NextVerify]_vars

\* what the standard and the extended withdrawal flow share: the scan handler
\* after its entry, the pay handlers after theirs, the pending inserts, the clock
WithdrawSteps ==
  \/ ScanCard
  \/ ScanGetLimits
  \/ ScanCreate
  \/ \E h \in PayWorkers : PayFindPR(h)
  \/ \E h \in PayWorkers : PayGetLimits(h)
  \/ \E h \in PayWorkers, ledger \in LedgerBalances : PayFetchBalances(h, ledger)
  \/ \E h \in PayWorkers : PayFindCard(h)
  \/ \E h \in PayWorkers : PayFindDelegation(h)
  \/ \E ins \in inserts : AddPayments(ins)
  \/ \E h \in PayWorkers : PayRespondOK(h)
  \/ \E h \in PayWorkers : PayRespondError(h)
  \/ Tick

\* LNURL-withdraw: standard scans and GET /card/pay requests, interleaved
NextPayGet ==
  \/ \E tap \in ScanTaps : ScanBegin("standard", {defaultToken}, tap)
  \/ \E h \in PayWorkers, k1 \in 1..Len(paymentRequests), msats \in Msats :
       PayBegin(h, "GET", k1, [t \in {defaultToken} |-> msats])
  \/ WithdrawSteps

SpecPayGet == Init /\ [][NextPayGet]_vars

\* extended withdrawal: extended scans and POST /card/pay requests, interleaved
NextPayPost ==
  \/ \E tap \in ScanTaps, tokens \in ScanTokenLists : ScanBegin("extended", tokens, tap)
  \/ \E h \in PayWorkers, k1 \in 1..Len(paymentRequests), tokens \in PostTokens :
       PayBegin(h, "POST", k1, tokens)
  \/ WithdrawSteps

SpecPayPost == Init /\ [][NextPayPost]_vars

\* one scan of either kind and both pay endpoints, interleaved: the k1 may be
\* presented to either endpoint
NextRouting ==
  \/ \E kind \in {"standard", "extended"}, tap \in ScanTaps, tokens \in ScanTokenLists :
       /\ paymentRequests = <<>>
       /\ ScanBegin(kind, tokens, tap)
  \/ \E h \in PayWorkers, k1 \in 1..Len(paymentRequests), msats \in Msats :
       PayBegin(h, "GET", k1, [t \in {defaultToken} |-> msats])
  \/ \E h \in PayWorkers, k1 \in 1..Len(paymentRequests), tokens \in PostTokens :
       PayBegin(h, "POST", k1, tokens)
  \/ WithdrawSteps

SpecRouting == Init /\ [][NextRouting]_vars

\* the allowance of a card under any history of Payments: Payments arrive, time
\* passes, and extended scans read the limits
NextLimits ==
  \/ \E tokens \in EarlierTokens : InsertPayments(tokens)
  \/ \E tap \in ScanTaps, tokens \in ScanTokenLists : ScanBegin("extended", tokens, tap)
  \/ ScanCard
  \/ ScanGetLimits
  \/ ScanCreate
  \/ Tick

SpecLimits == Init /\ [][NextLimits]_vars

\* card writers initialising NTAGs, one request at a time
NextInitialize ==
  \/ \E content \in InitContents, keys \in RandomKeys, designFirst \in BOOLEAN :
       InitializeCreate(content, keys, designFirst)
  \/ InitializeFindFirst

SpecInitialize == Init /\ [][NextInitialize]_vars

\* a sequence of Associate requests
NextAssociate ==
  \/ \E tap \in AssocTaps, otc \in Otcs : AssociateBegin(tap, otc)
  \/ AssociateFindFirst
  \/ AssociateUpdate

SpecAssociate == Init /\ [][NextAssociate]_vars

\* NTAG cidB is associated with otc1 while holders activate cards, concurrently
NextActivate ==
  \/ \E ctr \in Counters : AssociateBegin(generatePC(InitNtag424["cidB"].k2, "cidB", ctr), "otc1")
  \/ AssociateFindFirst
  \/ AssociateUpdate
  \/ \E w \in ActWorkers, event \in ActivateEvents : ActivateBegin(w, event)
  \/ \E w \in ActWorkers : ActivateFindFirst(w)
  \/ \E w \in ActWorkers : ActivateUpsertHolder(w)
  \/ \E w \in ActWorkers : ActivateCreateCard(w)
  \/ \E w \in ActWorkers, published \in BOOLEAN : ActivatePublish(w, published)

SpecActivate == Init /\ [][NextActivate]_vars

\* holders accepting donated cards, one request at a time
NextTransfer ==
  \/ \E pubkey \in {"holder1", "holder2", "holder3"}, donor \in {"holder1", "holder2"},
        signer \in {"holder1", "holder2"}, uuid \in {"card1", "card2"} :
       TransferBegin(pubkey, donor, [pubkey |-> signer, cardUuid |-> uuid])
  \/ TransferCard

SpecTransfer == Init /\ [][NextTransfer]_vars

\* NTAG cidB is associated and activated by a holder while admins ask for
\* resets with taps of either NTAG
NextResetRequest ==
  \/ \E ctr \in Counters : AssociateBegin(generatePC(InitNtag424["cidB"].k2, "cidB", ctr), "otc1")
  \/ AssociateFindFirst
  \/ AssociateUpdate
  \/ \E event \in {x \in ActivateEvents : x.otc = "otc1"} : ActivateBegin("a1", event)
  \/ ActivateFindFirst("a1")
  \/ ActivateUpsertHolder("a1")
  \/ ActivateCreateCard("a1")
  \/ ActivatePublish("a1", TRUE)
  \/ \E admin \in AssocTaps, target \in AssocTaps : ResetRequestVerify("admin", admin, target)
  \/ \E target \in AssocTaps : ResetRequestVerify("target", target, target)
  \/ ResetRequestCard
  \/ \E token \in ResetNonces : ResetRequestUpsert(token)

SpecResetRequest == Init /\ [][NextResetRequest]_vars

\* holder3 activates NTAG cidB, an admin asks for its reset, and two
\* claimants present nonces, concurrently, while time passes
NextResetClaim ==
  \/ AssociateBegin(generatePC(InitNtag424["cidB"].k2, "cidB", 1), "otc1")
  \/ AssociateFindFirst
  \/ AssociateUpdate
  \/ \E event \in {x \in ActivateEvents : x.otc = "otc1" /\ x.pubkey = "holder3"} :
       ActivateBegin("a1", event)
  \/ ActivateFindFirst("a1")
  \/ ActivateUpsertHolder("a1")
  \/ ActivateCreateCard("a1")
  \/ ActivatePublish("a1", TRUE)
  \/ ResetRequestVerify("admin", generatePC(InitNtag424["cidA"].k2, "cidA", 1),
                        generatePC(InitNtag424["cidB"].k2, "cidB", 2))
  \/ ResetRequestVerify("target", hreq.request.target, hreq.request.target)
  \/ ResetRequestCard
  \/ ResetRequestUpsert("nonce1")
  \/ /\ hreq.request.pc = "done"
     /\ \E w \in ClaimWorkers, pubkey \in {"holder4", "holder1"}, otc \in ResetNonces :
          ClaimBegin(w, pubkey, otc, IF pubkey = "holder4" THEN "sig4" ELSE "sig1")
  \/ \E w \in ClaimWorkers : ClaimFindToken(w)
  \/ \E w \in ClaimWorkers : ClaimCheck(w)
  \/ \E w \in ClaimWorkers : ClaimDelete(w)
  \/ \E w \in ClaimWorkers : ClaimCloneHolder(w)
  \/ \E w \in ClaimWorkers : ClaimUpdateMany(w)
  \/ \E w \in ClaimWorkers, published \in BOOLEAN : ClaimPublish(w, published)
  \/ \E w \in ClaimWorkers, outcome \in {"name", "error", "throws"} : ClaimIdentityProvider(w, outcome)
  \/ Tick

SpecResetClaim == Init /\ [][NextResetClaim]_vars

\* holder3 activates NTAG cidB and gets card2; holder1 and holder3 send
\* card-config-change events
NextConfig ==
  \/ AssociateBegin(generatePC(InitNtag424["cidB"].k2, "cidB", 1), "otc1")
  \/ AssociateFindFirst
  \/ AssociateUpdate
  \/ \E event \in {x \in ActivateEvents : x.otc = "otc1" /\ x.pubkey = "holder3"} :
       ActivateBegin("a1", event)
  \/ ActivateFindFirst("a1")
  \/ ActivateUpsertHolder("a1")
  \/ ActivateCreateCard("a1")
  \/ ActivatePublish("a1", TRUE)
  \/ \E holderPubKey \in {"holder1", "holder3"}, content \in ConfigContents, committed \in BOOLEAN :
       ConfigChange(holderPubKey, content, committed)

SpecConfig == Init /\ [][NextConfig]_vars

\* GET /card/scan requests of every action, one after the other
NextScanAction ==
  \/ \E action \in ScanActions, tap \in Taps : ScanActionBegin("v1", action, tap)
  \/ \E v \in Verifiers : VerifyFindUnique(v) /\ UNCHANGED <<payVars, provVars>>
  \/ \E v \in Verifiers : VerifySdmmac(v) /\ UNCHANGED <<payVars, provVars>>
  \/ \E v \in Verifiers : VerifyUpdate(v) /\ UNCHANGED <<payVars, provVars>>
  \/ \E v \in Verifiers : ScanActionAnswer(v)

SpecScanAction == Init /\ [][NextScanAction]_vars

\* uuid2suuid and suuid2uuid applied to the inputs
NextSuuid ==
  \/ \E uuid \in UuidInputs : Uuid2Suuid(uuid)
  \/ \E suuid \in SuuidInputs : Suuid2Uuid(suuid)

SpecSuuid == Init /\ [][NextSuuid]_vars

\* a relay delivers events to the subscription
NextSubscription == \E event \in DeliveredEvents : SubscriptionEvent(event)

SpecSubscription == Init /\ [][NextSubscription]_vars

\* events arrive at the preflight while time passes
NextPreflight ==
  \/ \E event \in PreflightEvents, expectedPubkey \in {"", "holder1", "delegatee"} :
       ParseEventBody(event, expectedPubkey)
  \/ Tick

SpecPreflight == Init /\ [][NextPreflight]_vars

\* one conditions string is validated
NextConditions ==
  /\ hreq.conditions.op = "none"
  /\ \E parts \in ConditionInputs : ValidateDelegationConditions(parts)

SpecConditions == Init /\ [][NextConditions]_vars

\* one client presents genuine taps of cidA with counters of the whole range
NextWideCounter ==
  \/ \E tap \in WideTaps : VerifyBegin("v1", tap) /\ UNCHANGED <<payVars, provVars>>
  \/ VerifyFindUnique("v1") /\ UNCHANGED <<payVars, provVars>>
  \/ VerifySdmmac("v1") /\ UNCHANGED <<payVars, provVars>>
  \/ VerifyUpdate("v1") /\ UNCHANGED <<payVars, provVars>>

SpecWideCounter == Init /\ [][NextWideCounter]_vars

\* LNURL-withdraw while the holder changes the configuration of the card:
\* scans, GET /card/pay requests of one client, and card-config-change events
\* that arrive while no pay request is in flight
NextDisabledPay ==
  \/ \E tap \in ScanTaps : ScanBegin("standard", {defaultToken}, tap)
  \/ \E k1 \in 1..Len(paymentRequests), msats \in Msats :
       PayBegin("p1", "GET", k1, [t \in {defaultToken} |-> msats])
  \/ WithdrawSteps
  \/ \E content \in ConfigContents :
       /\ \A h \in PayWorkers : preq[h].pc \in {"idle", "done"}
       /\ ConfigChange("holder1", content, TRUE)

SpecDisabledPay == Init /\ [][NextDisabledPay]_vars

\* extended withdrawal where the client chooses the amount freely: extended
\* scans and POST /card/pay requests of one client
NextPaySigned ==
  \/ \E tap \in ScanTaps, tokens \in ScanTokenLists : ScanBegin("extended", tokens, tap)
  \/ \E k1 \in 1..Len(paymentRequests), tokens \in SignedTokens : PayBegin("p1", "POST", k1, tokens)
  \/ WithdrawSteps

SpecPaySigned == Init /\ [][NextPaySigned]_vars

(***************************************************************************)
(* Claims about the SUN verifier                                           *)
(***************************************************************************)
VerifiedOk(v) == vreq[v].pc = "done" /\ vreq[v].result = "ok"

\* C1: a tap with counter c1 whose verification starts after a tap of the same
\* NTAG with a greater counter c2 was answered ok is never answered ok.
C1_OlderTapRejectedAfterNewer ==
  \A v \in Verifiers :
    VerifiedOk(v) => \A c2 \in vreq[v].seen : ~(vreq[v].ctrNew < c2)

\* C2: a verification passes the counter test, and so is answered ok, only with
\* a counter strictly greater than the counter of the NTAG row it read; with a
\* counter equal to it (an exact replay) it is rejected.
C2_StrictlyGreater ==
  \A v \in Verifiers :
    /\ (vreq[v].pc \in {"sdmmac", "update"} \/ VerifiedOk(v)) => vreq[v].ctrNew > vreq[v].ctrOld
    /\ (vreq[v].pc = "done" /\ vreq[v].cid \in Cids /\ vreq[v].ctrNew = vreq[v].ctrOld)
         => vreq[v].result = "MALFORMED_P__COUNTER_VALUE_TOO_OLD"

\* C2 witness: an exact replay of an accepted tap, read at the counter it stored
\* and rejected.
C2_Witness ==
  \E v \in Verifiers :
    /\ vreq[v].pc = "done"
    /\ vreq[v].result = "MALFORMED_P__COUNTER_VALUE_TOO_OLD"
    /\ vreq[v].ctrNew = vreq[v].ctrOld
    /\ vreq[v].ctrNew \in vreq[v].seen

\* C3: a verification answered ok stores its own counter, and the stored counter
\* of an NTAG never decreases.
C3_CounterNeverDecreases ==
  [][/\ \A v \in Verifiers :
         (vreq[v].pc = "update" /\ VerifiedOk(v)') =>
           ntag424'[vreq[v].cid].ctr = vreq[v].ctrNew
     /\ \A cid \in Cids : ntag424'[cid].ctr >= ntag424[cid].ctr]_vars

\* C4: of two verifications of the same (p, c) that run concurrently, at most
\* one is answered ok.
C4_AtMostOneConcurrentSuccess ==
  \A v \in Verifiers : \A w \in Verifiers \ {v} :
    ~ /\ VerifiedOk(v) /\ VerifiedOk(w)
      /\ vreq[v].p = vreq[w].p /\ vreq[v].c = vreq[w].c
      /\ vreq[v].ctrNew \notin vreq[v].seen
      /\ vreq[w].ctrNew \notin vreq[w].seen

(***************************************************************************)
(* Claims about the withdrawal pipeline                                    *)
(***************************************************************************)
Published(h) == \E i \in 1..Len(outbox) : outbox[i].from = h

InsertIssued(h) == \E ins \in inserts : ins.by = h

\* C5: a pay request that arrives after a pay request with the same k1 was
\* answered OK publishes no event, inserts no Payment and is not answered OK.
C5_K1SingleUse ==
  \A h \in PayWorkers :
    preq[h].replay => ~Published(h) /\ ~InsertIssued(h) /\ preq[h].status # 200

\* C6: of two pay requests with the same k1 that run concurrently at most one
\* publishes a transfer event, and at most one set of Payment rows references
\* the PaymentRequest.
C6_ConcurrentPayAtMostOnce ==
  (\A h \in PayWorkers : ~preq[h].replay) =>
    /\ \A h \in PayWorkers : \A g \in PayWorkers \ {h} :
         ~(Published(h) /\ Published(g) /\ preq[h].k1 = preq[g].k1)
    /\ \A i \in 1..Len(payments) : \A j \in 1..Len(payments) :
         (/\ payments[i].paymentRequestUuid = payments[j].paymentRequestUuid
          /\ payments[i].token = payments[j].token) => i = j

RECURSIVE SpentSince(_, _, _, _)
\* the amounts of the first n Payments of a card in a token created at or after
\* the instant `since`, added up
SpentSince(cardUuid, token, since, n) ==
  IF n = 0 THEN 0
  ELSE (IF /\ payments[n].cardUuid = cardUuid
           /\ payments[n].token = token
           /\ payments[n].createdAt >= since
          THEN payments[n].amount ELSE 0)
       + SpentSince(cardUuid, token, since, n - 1)

\* what is left of a Limit now
Remaining(l) == l.amount - SpentSince(l.cardUuid, l.token, now - l.delta, Len(payments))

\* C7: for every Limit of a card, the card's Payments in the Limit's token of
\* the last delta seconds never add up to more than the Limit's amount.
C7_WindowSumWithinLimit ==
  \A l \in Limits : SpentSince(l.cardUuid, l.token, now - l.delta, Len(payments)) <= l.amount

\* a token without any Limit, to ask getLimits for
UnlimitedToken == "ARS"

\* C8: for every card and token set T, getLimits maps each token of T that has
\* a Limit to the least of what is left of the card's Limits in that token when
\* that is positive, and omits the token when it is not or when it has no Limit.
C8_GetLimitsIsLeastRemaining ==
  \A card \in Cards : \A T \in (SUBSET (Tokens \cup {UnlimitedToken})) \ {{}} :
    LET result == getLimits(card, T)
    IN \A t \in T :
         LET ofToken == {l \in Limits : l.cardUuid = card.uuid /\ l.token = t}
         IN IF ofToken # {} /\ \A l \in ofToken : Remaining(l) > 0
              THEN /\ t \in DOMAIN result
                   /\ \E l \in ofToken : result[t] = Remaining(l)
                   /\ \A l \in ofToken : result[t] <= Remaining(l)
              ELSE t \notin DOMAIN result

\* C8 witness: an extended scan has read the limits of a card with Payments;
\* the least remaining amount in BTC is that of the wider window alone, and USD
\* is omitted.
C8_Witness ==
  /\ Len(payments) > 0
  /\ sreq.pc = "create"
  /\ sreq.response.tokens = getLimits(Card1, Tokens)
  /\ "BTC" \in DOMAIN getLimits(Card1, Tokens)
  /\ \E l \in Limits : l.token = "BTC" /\ getLimits(Card1, Tokens)["BTC"] < Remaining(l)
  /\ "USD" \notin DOMAIN getLimits(Card1, Tokens)

\* C9: GET /card/pay inserts a Payment and publishes an event only if the
\* amount is within the maxWithdrawable of the stored scan response, within the
\* remaining BTC allowance it read and within the BTC balance it fetched; a
\* request answered 400 has published nothing and inserted nothing.
C9_GetPayWithinBounds ==
  \A h \in PayWorkers :
    /\ (preq[h].kind = "GET" /\ preq[h].pc = "publish") =>
         LET r == preq[h]
             msats == r.tokens[defaultToken]
             response == paymentRequests[r.k1].response
         IN /\ defaultToken \in DOMAIN response.tokens
            /\ msats <= response.tokens[defaultToken]
            /\ defaultToken \in DOMAIN r.limits
            /\ msats <= r.limits[defaultToken]
            /\ defaultToken \in DOMAIN r.balance
            /\ msats <= r.balance[defaultToken]
    /\ (preq[h].kind = "GET" /\ preq[h].status = 400) => ~Published(h) /\ ~InsertIssued(h)

\* C10: POST /card/pay inserts Payments and publishes an event only if every
\* requested token is in the stored scan response and within its
\* maxWithdrawable, the remaining allowance and the fetched balance; a request
\* answered 400 has published nothing and inserted nothing; and the Payments
\* of a published request are inserted for all of its tokens or for none.
C10_PostAllOrNothing ==
  /\ \A h \in PayWorkers :
       /\ (preq[h].kind = "POST" /\ preq[h].pc = "publish") =>
            LET r == preq[h]
                response == paymentRequests[r.k1].response
            IN \A t \in DOMAIN r.tokens :
                 /\ t \in DOMAIN response.tokens /\ r.tokens[t] <= response.tokens[t]
                 /\ t \in DOMAIN r.limits /\ r.tokens[t] <= r.limits[t]
                 /\ t \in DOMAIN r.balance /\ r.tokens[t] <= r.balance[t]
       /\ (preq[h].kind = "POST" /\ preq[h].status = 400) => ~Published(h) /\ ~InsertIssued(h)
  /\ \A i \in 1..Len(payments) :
       \E e \in 1..Len(outbox) :
         /\ outbox[e].k1 = payments[i].paymentRequestUuid
         /\ payments[i].token \in DOMAIN outbox[e].content
         /\ outbox[e].content[payments[i].token] = payments[i].amount
  /\ \A e \in 1..Len(outbox) :
       \/ InsertIssued(outbox[e].from)
       \/ \A t \in DOMAIN outbox[e].content :
            \E i \in 1..Len(payments) :
              /\ payments[i].paymentRequestUuid = outbox[e].k1
              /\ payments[i].token = t
              /\ payments[i].amount = outbox[e].content[t]

\* C10 witness: one POST has published for two tokens and its Payments are in
\* the store, and another POST was answered 400.
C10_Witness ==
  \E h \in PayWorkers : \E g \in PayWorkers \ {h} :
    /\ preq[h].kind = "POST" /\ Published(h) /\ ~InsertIssued(h)
    /\ \E e \in 1..Len(outbox) : outbox[e].from = h /\ DOMAIN outbox[e].content = Tokens
    /\ Len(payments) >= 2
    /\ preq[g].kind = "POST" /\ preq[g].status = 400

\* the age of a payment request and whether any Payment references it
Age(uuid) == now - paymentRequests[uuid].createdAt

Unpaid(uuid) == ~\E i \in 1..Len(payments) : payments[i].paymentRequestUuid = uuid

\* the checks of the pay handler after its lookup, for worker h, pass
PassesAfterLookup(h) ==
  LET r == preq[h]
      pr == paymentRequests[r.k1]
  IN /\ pr.response.tag = (IF r.kind = "GET" THEN "withdrawRequest" ELSE "laWallet:withdrawRequest")
     /\ ~(r.kind = "GET" /\ GetAmountInvalid(pr.response, r.tokens[defaultToken]))

\* the step in which the lookup of worker h resolves
LookupStep(h) == preq[h].pc = "findPR" /\ preq'[h].pc # "findPR"

\* C11 (as stated): the lookup of a pay request rejects the PaymentRequest as
\* expired exactly when its age exceeds the expiry; at an age of at most the
\* expiry an unpaid PaymentRequest is returned.
C11_ExpiredWhenOlderThanExpiry ==
  [][\A h \in PayWorkers :
       LookupStep(h) =>
         /\ Age(preq[h].k1) > paymentRequestExpiryInSeconds => preq'[h].status = 400
         /\ (/\ Age(preq[h].k1) <= paymentRequestExpiryInSeconds
             /\ Unpaid(preq[h].k1)
             /\ PassesAfterLookup(h)) => preq'[h].pc = "getLimits"]_vars

\* C11 (amended): the lookup rejects the PaymentRequest as expired exactly when
\* its age has reached the expiry; at an age below the expiry an unpaid
\* PaymentRequest is returned.
C11_ExpiredAtExpiry ==
  [][\A h \in PayWorkers :
       LookupStep(h) =>
         /\ Age(preq[h].k1) >= paymentRequestExpiryInSeconds => preq'[h].status = 400
         /\ (/\ Age(preq[h].k1) < paymentRequestExpiryInSeconds
             /\ Unpaid(preq[h].k1)
             /\ PassesAfterLookup(h)) => preq'[h].pc = "getLimits"]_vars

\* C11 witness: a pay request is about to look up an unpaid PaymentRequest whose
\* age equals the expiry, and another was answered 400.
C11_Witness ==
  \E h \in PayWorkers : \E g \in PayWorkers \ {h} :
    /\ preq[h].pc = "findPR"
    /\ Age(preq[h].k1) = paymentRequestExpiryInSeconds
    /\ Unpaid(preq[h].k1)
    /\ PassesAfterLookup(h)
    /\ preq[g].status = 400

\* C12: a pay request hands over a transfer event only with a Delegation of the
\* card's holder that is valid now, and the event carries that Delegation's
\* delegator, conditions and token; without one it is answered 400 and issues
\* no insert.
C12_PublishOnlyWithValidDelegation ==
  [][\A h \in PayWorkers :
       preq[h].pc = "findDelegation" /\ preq'[h].pc # "findDelegation" =>
         LET card == CHOOSE c \in Cards : c.uuid = paymentRequests[preq[h].k1].cardUuid
             valid == {d \in Delegations : /\ d.delegatorPubKey = card.holderPubKey
                                           /\ d.since <= now /\ now <= d.until}
         IN IF valid = {}
              THEN preq'[h].status = 400 /\ outbox' = outbox /\ inserts' = inserts
              ELSE /\ preq'[h].pc = "publish"
                   /\ Len(outbox') = Len(outbox) + 1
                   /\ \E d \in valid :
                        outbox'[Len(outbox')].delegation =
                          <<d.delegatorPubKey, d.conditions, d.delegationToken>>]_vars

\* C12 witness: one pay request has published under the holder's Delegation and
\* another looks for the Delegation after it ran out.
C12_Witness ==
  /\ now > 2
  /\ \E h \in PayWorkers : \E g \in PayWorkers \ {h} :
       /\ Published(h)
       /\ \E e \in 1..Len(outbox) : outbox[e].delegation[1] = "holder1"
       /\ preq[g].pc = "findDelegation"

\* C13: a pay endpoint goes on past the tag check, publishes or inserts only
\* with a k1 whose stored tag is its own ('withdrawRequest' for GET,
\* 'laWallet:withdrawRequest' for POST); with the other tag it is answered 400
\* and the PaymentRequest stays unconsumed.
C13_TagRouting ==
  /\ \A h \in PayWorkers :
       (\/ preq[h].pc \in {"getLimits", "fetchBalances", "findCard", "findDelegation", "publish"}
        \/ preq[h].status \in {200, 500} \/ Published(h) \/ InsertIssued(h)) =>
         paymentRequests[preq[h].k1].response.tag =
           (IF preq[h].kind = "GET" THEN "withdrawRequest" ELSE "laWallet:withdrawRequest")
  /\ \A i \in 1..Len(payments) :
       \E h \in PayWorkers : Published(h) /\ preq[h].k1 = payments[i].paymentRequestUuid

\* C13 witness: a k1 of an extended scan was presented to GET /card/pay, which
\* answered 400, and to POST /card/pay, which published.
C13_Witness ==
  \E h \in PayWorkers : \E g \in PayWorkers \ {h} :
    /\ preq[h].kind = "GET" /\ preq[h].status = 400
    /\ preq[g].kind = "POST" /\ Published(g)
    /\ paymentRequests[preq[g].k1].response.tag = "laWallet:withdrawRequest"
    /\ Len(paymentRequests) = 1

\* C14: a scan that finds the allowance exhausted for every token it asked for
\* answers 400 and creates no PaymentRequest.
C14_ExhaustedScanCreatesNothing ==
  /\ sreq.pc = "create" => sreq.response.tokens # EmptyMap
  /\ \A k1 \in 1..Len(paymentRequests) : paymentRequests[k1].response.tokens # EmptyMap

\* C15: a pay request whose publish failed is answered 500 and its Payments
\* stand, and a pay request that arrives with the same k1 after that answer
\* publishes nothing and inserts nothing.
C15_NoPayAfterFailedPublish ==
  \A h \in PayWorkers :
    /\ preq[h].status = 500 =>
         \E e \in 1..Len(outbox) :
           /\ outbox[e].from = h
           /\ \/ InsertIssued(h)
              \/ \A t \in DOMAIN outbox[e].content :
                   \E i \in 1..Len(payments) :
                     /\ payments[i].paymentRequestUuid = preq[h].k1
                     /\ payments[i].token = t
    /\ preq[h].retry => ~Published(h) /\ ~InsertIssued(h)

(***************************************************************************)
(* Claims about provisioning: Initialize, Associate, Activate              *)
(***************************************************************************)
\* C16: an Associate request whose verified NTAG is already bound to the
\* requested otc is answered 204 and leaves the NTAG's otc as it was
C16_ReassociateSameOtcIs204 ==
  (areq.pc = "done" /\ areq.cid # "none" /\ areq.oldOtc = areq.otc)
    => (areq.status = 204 /\ ntag424[areq.cid].otc = areq.otc)

\* no two NTAGs of the table hold the same non-null otc
NoSharedOtc(table) ==
  \A a, b \in DOMAIN table : (a # b /\ table[a].otc # "null") => table[a].otc # table[b].otc

\* C17: an Associate request whose verified NTAG is bound to another otc, or
\* whose otc another NTAG holds, is answered 409; a request answered 409
\* changes no NTAG's otc; and after any sequence of Associate requests no two
\* NTAGs share a non-null otc
C17_ConflictIs409AndOtcAtMostOnce ==
  /\ [](NoSharedOtc(ntag424))
  /\ [][ (areq' # areq /\ areq'.pc = "done" /\ areq'.cid # "none")
           => /\ ( \/ areq'.oldOtc \notin {"null", areq'.otc}
                   \/ \E other \in DOMAIN ntag424 \ {areq'.cid} : ntag424[other].otc = areq'.otc )
                   => areq'.status = 409
              /\ areq'.status = 409
                   => \A cid \in DOMAIN ntag424 : ntag424'[cid].otc = ntag424[cid].otc ]_vars

C17_Witness ==
  /\ areq.pc = "done" /\ areq.status = 409 /\ areq.msg = "OTC already has NTAG"
  /\ areq.cid = "cidB" /\ areq.otc = "otcA" /\ ntag424["cidB"].otc = "null"

C19_AtMostOneCardPerNtag ==
  /\ \A cid \in DOMAIN ntag424 : Cardinality({c \in cards : c.ntag424Cid = cid}) <= 1
  /\ \A w, v \in ActWorkers :
       (w # v /\ creq[w].card # NoCard /\ creq[v].card # NoCard) => creq[w].cid # creq[v].cid
  /\ \A w \in ActWorkers : creq[w].card # NoCard => creq[w].card \in cards

C19_Witness ==
  \E w, v \in ActWorkers :
    /\ creq[w].cid = creq[v].cid /\ creq[w].cid # "none"
    /\ creq[w].card # NoCard
    /\ creq[v].pc = "done" /\ creq[v].status = 500 /\ creq[v].card = NoCard

\* C20: a replay of an activation event that was answered 201 is answered 201
\* with the Card of the first activation
C20_ReplayReturnsSameCard ==
  \A w \in ActWorkers :
    (creq[w].replay /\ creq[w].pc = "done")
      => /\ creq[w].status = 201
         /\ \E g \in ActWorkers \ {w} : creq[g].event = creq[w].event /\ creq[g].card = creq[w].card

\* C20 as the code has it: a replay of an activation event that was answered
\* 201 finds no available NTAG, is answered 404 with no Card, and never comes
\* to the steps that write Holder, Delegation or Card rows
C20_ReplayIs404AndCreatesNothing ==
  \A w \in ActWorkers :
    creq[w].replay
      => /\ creq[w].pc \in {"findFirst", "done"}
         /\ creq[w].pc = "done" => (creq[w].status = 404 /\ creq[w].card = NoCard)

C20_Witness ==
  \E w \in ActWorkers : creq[w].replay /\ creq[w].pc = "done" /\ creq[w].event.pubkey = "holder3"

\* C21: an Activate request that failed (404, or 500 of a rejected card.create)
\* leaves no Holder or Delegation row that did not exist before it: the
\* holder of its event is in the store only if it was there from the start
\* or another request of the same holder is in flight or answered
C21_FailedActivateLeavesNoRows ==
  \A w \in ActWorkers :
    (creq[w].pc = "done" /\ creq[w].status \in {404, 500} /\ creq[w].card = NoCard)
      => /\ creq[w].event.pubkey \in holders
              => \/ creq[w].event.pubkey \in {"holder1", "holder2"}
                 \/ \E g \in ActWorkers \ {w} : creq[g].event.pubkey = creq[w].event.pubkey
         /\ \A e \in delegations :
              e.delegationToken = creq[w].event.delegation.delegationToken
                => \/ e \in Delegations
                   \/ \E g \in ActWorkers \ {w} : creq[g].event.pubkey = creq[w].event.pubkey

\* C22: an Activate request answered 201 has published two events, the
\* card-data event of its holder and right after it the holder's card-config
\* event, and the outbox holds two events for every such request
C22_ActivatePublishesDataThenConfig ==
  /\ \A w \in ActWorkers :
       (creq[w].pc = "done" /\ creq[w].status = 201)
         => \E i \in 1..(Len(outbox) - 1) :
              /\ outbox[i] = CardDataEvent(creq[w].event.pubkey)
              /\ outbox[i + 1] = [t |-> "card-config", d |-> creq[w].event.pubkey]
  /\ Len(outbox) = 2 * Cardinality({w \in ActWorkers : creq[w].pc = "done" /\ creq[w].status = 201})

\* C23: a Card-Transfer acceptance changes a Card only if the Card's uuid is
\* the donated one and its holder is the donor, who signed the donation; the
\* change is holderPubKey := the accepting holder and enabled := false, in
\* one step; with no such Card the answer is 404, with a donor other than the
\* donation's signer 422, and then no Card changes
C23_TransferOnlyFromDonor ==
  [][ LET r == hreq'.transfer
      IN /\ cards' # cards
              => /\ r.donor = r.donation.pubkey /\ r.status = 200
                 /\ \A c \in cards \ cards' :
                      /\ c.uuid = r.donation.cardUuid /\ c.holderPubKey = r.donor
                      /\ [c EXCEPT !.holderPubKey = r.pubkey, !.enabled = FALSE] \in cards'
                 /\ \A c \in cards' \ cards :
                      \E b \in cards \ cards' : c = [b EXCEPT !.holderPubKey = r.pubkey, !.enabled = FALSE]
         /\ (hreq' # hreq /\ r.pc = "done")
              => /\ (r.donor # r.donation.pubkey) => (r.status = 422 /\ cards' = cards)
                 /\ ( /\ r.donor = r.donation.pubkey
                      /\ ~\E c \in cards : c.uuid = r.donation.cardUuid /\ c.holderPubKey = r.donor )
                      => (r.status = 404 /\ cards' = cards) ]_vars

C23_Witness ==
  /\ hreq.transfer.pc = "done" /\ hreq.transfer.status = 404
  /\ hreq.transfer.donor = "holder1" /\ hreq.transfer.donation.cardUuid = "card1"
  /\ \E c \in cards : c.uuid = "card1" /\ c.holderPubKey = "holder2" /\ ~c.enabled

\* C24: the set of ResetTokens changes only by an upsert for a request whose
\* admin card verified with a holder in ADMIN_PUBKEYS and whose target card
\* verified with a holder not in ADMIN_PUBKEYS, and the token is the
\* target's; every other request is answered 400 and changes no ResetToken
C24_ResetTokenOnlyForAdminAndTarget ==
  [][ LET r == hreq'.request
      IN /\ resetTokens' # resetTokens
              => /\ r.pc = "done" /\ r.status = 200
                 /\ r.adminPubkey \in adminPubkeys
                 /\ r.targetPubkey \notin adminPubkeys /\ r.targetPubkey # r.adminPubkey
                 /\ \E c \in cards : c.holderPubKey = r.adminPubkey
                 /\ \E c \in cards : c.holderPubKey = r.targetPubkey
                 /\ \A t \in resetTokens' \ resetTokens : t.holderPubKey = r.targetPubkey
                 /\ \A t \in resetTokens \ resetTokens' : t.holderPubKey = r.targetPubkey
         /\ (hreq'.request # hreq.request /\ r.pc = "done")
              => \/ r.status = 200 /\ hreq.request.pc = "upsert"
                 \/ r.status = 400 /\ resetTokens' = resetTokens ]_vars

C24_Witness ==
  /\ hreq.request.pc = "done" /\ hreq.request.status = 200
  /\ \E t \in resetTokens : t.holderPubKey = "holder3" /\ t.token = "nonce2"

\* a claim past the point of no return: its delete of the token succeeded and
\* no failure had been found before
PastPointOfNoReturn(r) ==
  \/ r.pc \in {"cloneHolder", "updateMany", "funds", "identity", "identityProvider"}
  \/ r.reassigned
  \/ r.reason = "Holder collision"

\* C25: a ResetToken authorizes at most one reset: a claim past the point of
\* no return has left no token of its one-time code behind, at most one claim
\* per one-time code gets there, every other claim of that code that has ended
\* was answered 'Reset token not found', and a claim that reassigned cards
\* found a token no older than RESET_EXPIRY_SECONDS.
C25_TokenAuthorizesOneReset ==
  \A w \in ClaimWorkers :
    LET r == hreq.claim[w]
    IN PastPointOfNoReturn(r) =>
         /\ ~\E t \in resetTokens : t.token = r.otc
         /\ r.reassigned => r.nowAtEntry - r.createdAt <= resetExpirySeconds
         /\ \A v \in ClaimWorkers \ {w} :
              hreq.claim[v].otc = r.otc =>
                /\ ~PastPointOfNoReturn(hreq.claim[v])
                /\ hreq.claim[v].pc = "done" =>
                     /\ hreq.claim[v].status = 422
                     /\ hreq.claim[v].reason = "Reset token not found"

\* C26: a claim that has reassigned the cards and has ended was answered 201
\* with fundsTransferOK, identityTransferOK and identityTransferPropagationOK
\* each true exactly when its side effect succeeded, whatever failed, and the
\* cards stay with the new holder.
C26_ReassignedClaimAnswers201WithFlags ==
  \A w \in ClaimWorkers :
    LET r == hreq.claim[w]
    IN r.reassigned =>
         /\ ~\E c \in cards : c.holderPubKey = r.holderPubKey
         /\ r.pc = "done" =>
              /\ r.status = 201
              /\ r.fundsTransferOK = r.fundsPublished
              /\ r.identityTransferOK = r.identityPublished
              /\ r.identityTransferPropagationOK = (r.idp = "name")

\* C27: applying a card-config-change event leaves the trusted merchants of
\* every other holder, the cards not held by the event's pubkey and the limits
\* of those cards as they were, creates and removes no card, and a rolled-back
\* application changes nothing at all.
C27_ConfigChangeTouchesOnlyTheHoldersRows ==
  [][hreq'.config # hreq.config =>
       LET pk == hreq'.config.pubkey
           others == {c \in cards : c.holderPubKey # pk}
       IN /\ {m \in trustedMerchants' : m.holderPubKey # pk} = {m \in trustedMerchants : m.holderPubKey # pk}
          /\ others \subseteq cards'
          /\ {c.uuid : c \in cards'} = {c.uuid : c \in cards}
          /\ \A c \in cards : [c EXCEPT !.enabled = TRUE] \in {[x EXCEPT !.enabled = TRUE] : x \in cards'}
          /\ \A c \in others : {l \in limit' : l.cardUuid = c.uuid} = {l \in limit : l.cardUuid = c.uuid}
          /\ ~hreq'.config.committed =>
               /\ trustedMerchants' = trustedMerchants
               /\ cards' = cards
               /\ limit' = limit
               /\ outbox' = outbox]_vars

\* an event of holder1 with entries for its own card1 and for card2 of
\* holder3 was applied: card1 is disabled and has the new limit, card2 is not
C27_Witness ==
  /\ hreq.config.committed
  /\ hreq.config.pubkey = "holder1"
  /\ DOMAIN hreq.config.content.cards = {"card1", "card2"}
  /\ \A u \in {"card1", "card2"} : hreq.config.content.cards[u].status = "DISABLED"
  /\ \E c \in cards : c.uuid = "card1" /\ ~c.enabled
  /\ \E c \in cards : c.uuid = "card2" /\ c.enabled /\ c.holderPubKey = "holder3"
  /\ \E l \in limit : l.cardUuid = "card1" /\ l.uuid = "l6"
  /\ ~\E l \in limit : l.cardUuid = "card2" /\ l.uuid = "l7"

\* C28: whichever check of the verifier rejected the tap, a scan action other
\* than info answers with the one reason 'Failed to retrieve card data'.
C28_FailureReasonIsTheSameForEveryCheck ==
  \A v \in Verifiers :
    LET q == hreq.scan[v]
    IN q.pc = "done" /\ q.action # "info" /\ q.error # "none" =>
         /\ q.status = 400
         /\ q.reason = ScanErrorReasonFixed(q.error)

\* C29: no step of a request of the info action changes stored state: the
\* NTAG rows with their counters, the payment requests and every other table
\* are after the step what they were before.
C29_InfoIsReadOnly ==
  [][\A v \in Verifiers :
       hreq.scan[v].action = "info" /\ hreq.scan[v].pc = "verifying"
         /\ (vreq'[v] # vreq[v] \/ hreq'.scan[v] # hreq.scan[v]) =>
           /\ ntag424' = ntag424
           /\ paymentRequests' = paymentRequests
           /\ payments' = payments
           /\ cards' = cards
           /\ holders' = holders]_vars

\* C30: uuid2suuid of a uuid is 22 characters of the alphabet and suuid2uuid
\* of it is the uuid again; suuid2uuid of a string with a character outside
\* the alphabet, or of one whose value is above 2^128 - 1, is null.
C30_SuuidRoundTripAndRejection ==
  LET r == hreq.suuid
  IN /\ r.op = "uuid2suuid" /\ MatchesUuidRegex(r.input) =>
          /\ Len(r.suuid) = 22
          /\ CharsOf(r.suuid) \subseteq CharsOf(sAlpha)
          /\ r.uuid = r.input
     /\ r.op = "suuid2uuid" /\ ~(CharsOf(r.input) \subseteq CharsOf(sAlpha)) => r.uuid = Null
     /\ r.op = "suuid2uuid" /\ CharsOf(r.input) \subseteq CharsOf(sAlpha)
          /\ TooLarge(Decode(r.input)) => r.uuid = Null

\* C31: whenever a transfer event has been handed to the outbox, the Payment
\* rows of its pay request are in the store: the insertion is complete before
\* the event is published.
C31_PaymentsInsertedBeforePublish ==
  \A i \in 1..Len(outbox) :
    \E j \in 1..Len(payments) : payments[j].paymentRequestUuid = outbox[i].k1

HasTag(event, tag) == \E i \in 1..Len(event.tags) : event.tags[i] = tag

\* C32: the event published to confirm an applied config change has kind 31111
\* and the tags e (the id of the request event), t (card-config) and d
\* (<holderPubKey>:card-config), and the event of buildCardConfigEvent for
\* that holder has the tags t and d.
C32_ConfigEventsCarryTheirTags ==
  hreq.config.committed =>
    LET ack == outbox[Len(outbox)]
        pk == hreq.config.pubkey
    IN /\ ack.kind = 31111
       /\ HasTag(ack, Tag("e", <<hreq.config.id>>))
       /\ HasTag(ack, Tag("t", <<"card-config">>))
       /\ HasTag(ack, Tag("d", <<pk, ":", "card-config">>))
       /\ HasTag(buildCardConfigEvent(pk), Tag("t", <<"card-config">>))
       /\ HasTag(buildCardConfigEvent(pk), Tag("d", <<pk, ":", "card-config">>))

\* C33: every delivered event went through the preflight; one that passed was
\* handed, itself, to the topic handler; one that failed left the store as
\* it was.
C33_DeliveredEventsArePreflightedAndDispatched ==
  LET q == hreq.subscription
  IN q.n > 0 =>
       /\ q.preflight \in {"passed", "failed"}
       /\ q.preflight = "passed" <=> q.event.signed /\ q.event.recent
       /\ q.preflight = "passed" => q.handlerCalledWith = q.event.pubkey
       /\ q.preflight = "failed" =>
            /\ q.handlerCalledWith = "none"
            /\ cards = Cards /\ limit = Limits /\ outbox = <<>>

\* C34: an event with a delegation tag that verifies, otherwise valid and
\* recent, checked against an expected pubkey, is accepted exactly when the
\* delegator is that pubkey, and then carries the delegator as its pubkey; an
\* event with a delegation tag that does not verify is rejected; an event
\* with created_at + MAX_EVENT_AGE < now is rejected.
C34_DelegatorStandsForTheSigner ==
  LET q == hreq.preflight
      e == q.input
      verifies == e.delegation # NoDelegation /\ e.delegation.token = <<e.delegation.delegator, e.pubkey>>
  IN q.op = "parseEventBody" =>
       /\ verifies /\ e.structure /\ e.sig /\ e.created_at + maxEventAge >= q.at
            /\ q.expectedPubkey # "" =>
              /\ q.result.ok <=> e.delegation.delegator = q.expectedPubkey
              /\ q.result.ok => q.result.event.pubkey = e.delegation.delegator
       /\ e.delegation # NoDelegation /\ ~verifies => ~q.result.ok
       /\ e.created_at + maxEventAge < q.at => ~q.result.ok

\* an event signed by a delegatee of holder1, sent where holder1 is expected,
\* was accepted as an event of holder1; it was no longer fresh a second later
C34_Witness ==
  LET q == hreq.preflight
  IN /\ q.op = "parseEventBody"
     /\ q.input.pubkey = "delegatee"
     /\ q.expectedPubkey = "holder1"
     /\ q.result.ok
     /\ q.result.event.pubkey = "holder1"
     /\ q.input.created_at + maxEventAge = q.at
     /\ now > q.at

\* C35: validateDelegationConditions returns a value only for a string with
\* exactly one kind=, exactly one created_at> and exactly one created_at<
\* part, each with a positive integer, and since < until; a string that has
\* one of the three twice gets null.
C35_ConditionsAppearExactlyOnce ==
  LET q == hreq.conditions
      Of(prefix) == {i \in 1..Len(q.input) : q.input[i].prefix = prefix}
  IN q.op = "validateDelegationConditions" /\ q.result.ok =>
       /\ \A prefix \in {"kind=", "created_at>", "created_at<"} :
            /\ Cardinality(Of(prefix)) = 1
            /\ \A i \in Of(prefix) : q.input[i].digits[1] # 0
       /\ q.result.since < q.result.until

\* C36: for every cid and every counter of the 24-bit range, the counter and
\* cid bytes that generatePC writes decode in the verifier to the same
\* counter and the same cid; and the verifier, given the p and c of
\* generatePC for an NTAG whose stored counter is below ctr, answers with that
\* NTAG and leaves ctr stored.
C36_GeneratePCRoundTrips ==
  /\ \A cid \in Cids, ctr \in WideCounters :
       LET pBytes == decrypt(serverK1, generatePC(InitNtag424[cid].k2, cid, ctr).p)
       IN /\ pBytes.head = 199
          /\ pBytes.cid = cid
          /\ ctrNewOf(pBytes.ctr) = ctr
  /\ \A ctr \in WideCounters :
       LET r == vreq["v1"]
           tap == generatePC(InitNtag424["cidA"].k2, "cidA", ctr)
       IN r.pc = "done" /\ r.p = tap.p /\ r.c = tap.c /\ r.ctrOld < ctr =>
            /\ r.result = "ok"
            /\ r.cid = "cidA"
            /\ r.k2 = InitNtag424["cidA"].k2
            /\ ntag424["cidA"].ctr = ctr

\* the tap with all three counter bytes different was accepted after one
\* whose counter needs the third byte
C36_Witness ==
  LET r == vreq["v1"]
  IN /\ r.pc = "done"
     /\ r.result = "ok"
     /\ r.p = generatePC(InitNtag424["cidA"].k2, "cidA", 66051).p
     /\ r.ctrOld = 65536
     /\ ntag424["cidA"].ctr = 66051

\* C37: no transfer event is handed to the outbox for a payment request whose
\* card is disabled when the pay request is made, even if the k1 was issued
\* while the card was enabled.
C37_NoTransferForADisabledCard ==
  [][Len(outbox') > Len(outbox) /\ outbox'[Len(outbox')].kind = 1112 =>
       \A c \in cards : c.uuid = paymentRequests[outbox'[Len(outbox')].k1].cardUuid => c.enabled]_vars

\* C38: once a pay request was answered OK and the insert it issued has been
\* executed, at least one Payment row names its payment request, so the k1
\* is spent; this includes a POST /card/pay whose tokens map is empty.
C38_AnsweredPayLeavesAPayment ==
  \A h \in PayWorkers :
    /\ preq[h].pc = "done"
    /\ preq[h].status = 200
    /\ ~\E ins \in inserts : ins.paymentRequestUuid = preq[h].k1
    => \E i \in 1..Len(payments) : payments[i].paymentRequestUuid = preq[h].k1

\* C39: every Payment row has a strictly positive amount; a POST /card/pay
\* that asks for a zero or a negative amount of a token is rejected.
C39_PaymentAmountsArePositive ==
  \A i \in 1..Len(payments) : payments[i].amount > 0

\* C40: a claim whose claimant is a Holder already is answered 422 'Holder
\* collision' by the step that finds the collision, which reassigns no Card
\* and publishes no event; the ResetToken of its nonce is deleted by then and
\* stays so, and no claim of that nonce reassigns a Card.
C40_HolderCollisionSpendsTheToken ==
  /\ [][\A w \in ClaimWorkers :
          /\ hreq.claim[w].pc = "cloneHolder"
          /\ hreq.claim[w].pubkey \in holders
          /\ hreq'.claim[w] # hreq.claim[w]
          => /\ hreq'.claim[w].pc = "done"
             /\ hreq'.claim[w].status = 422
             /\ hreq'.claim[w].reason = "Holder collision"
             /\ cards' = cards
             /\ holders' = holders
             /\ outbox' = outbox
             /\ ~\E t \in resetTokens' : t.token = hreq.claim[w].otc]_vars
  /\ [](\A w \in ClaimWorkers :
          LET r == hreq.claim[w]
          IN r.reason = "Holder collision" =>
               /\ r.status = 422
               /\ ~r.reassigned /\ ~r.fundsPublished /\ ~r.identityPublished
               /\ ~\E t \in resetTokens : t.token = r.otc
               /\ \E c \in cards : c.holderPubKey = r.holderPubKey
               /\ \A v \in ClaimWorkers : hreq.claim[v].otc = r.otc => ~hreq.claim[v].reassigned)

\* holder1, a holder already, claimed the nonce and was answered 'Holder
\* collision'; the next claim of the nonce found no token
C40_Witness ==
  \E w, v \in ClaimWorkers :
    /\ hreq.claim[w].pc = "done"
    /\ hreq.claim[w].pubkey = "holder1"
    /\ hreq.claim[w].reason = "Holder collision"
    /\ hreq.claim[v].pc = "done"
    /\ hreq.claim[v].pubkey = "holder4"
    /\ hreq.claim[v].otc = hreq.claim[w].otc
    /\ hreq.claim[v].reason = "Reset token not found"

====
